---------------------------- MODULE Spec2Model ----------------------------
(***************************************************************************)
(* Model of the Wormhole-only USDC transfer of fluid-sdk:                  *)
(*   transferUsdcWithWormholeOnly (src/src/transferWormholeOnly.ts)        *)
(*   transferUsdcViaWormhole      (src/unnamed/part_001)                   *)
(*   pollVaa, fetchVaaBy*         (src/src/wormholeVaa.ts)                 *)
(* One run is a sequential async function; every action below is the code *)
(* between two awaits.  The chains and the guardian API are the            *)
(* environment: each call's outcome is chosen nondeterministically.        *)
(***************************************************************************)
EXTENDS Integers, Sequences, FiniteSets, TLC

VARIABLES
    pc,               \* position of the run in the code
    amountStr,        \* request.transferAmount, in units of 10^-7 USDC
    explicitRecipient,\* request.recipientAddress provided?
    cfgBridge,        \* config.aptosTokenBridgeAddress set?
    cfgCoinType,      \* config.aptosUsdcCoinType set?
    maxRetries,       \* parameter maxRetries
    initialBackoff,   \* parameter initialBackoff (ms)
    recipient,        \* recipientAddress (effective recipient)
    balance,          \* last USDC balance read (NotRead before)
    initAllowance,    \* allowance read at line 78 (NotRead before)
    allowance,        \* local `allowance` of transferUsdcViaWormhole
    approvedAmount,   \* approveAmount passed to approve (NotRead if none)
    authRetries,      \* local `retries` of the allowance re-read loop
    authSleeps,       \* fixed waits of the allowance propagation check
    txHash,           \* transferResult.txHash ("unset" before)
    sequence,         \* transferResult.sequence (NoSequence before)
    eventSeq,         \* sequence carried by the receipt's events (NoSequence if none)
    path,             \* "none" | "seq" (pollVaa) | "tx" (by-hash fallback)
    retries,          \* local `retries` of the attestation loop
    backoff,          \* local `backoff` of the attestation loop, <<num, den>>
    lookups,          \* outcomes of the attestation lookups, in order
    sleeps,           \* durations of the backoff sleeps, in order
    vaaHex,           \* the VAA received ("unset" before)
    destinationTx,    \* hash returned by submitTokenBridgeVaa
    calls,            \* chain calls made so far, in order
    err,              \* the error caught by the catch block ("none" before)
    result,           \* the TransferResult the promise resolved with
    nResults,         \* number of results produced
    cancelRequested,  \* an external cancellation signal was raised
    exitCode,         \* exit code of the CLI process (NoExit while it runs)
    runNo,            \* number of the current run of the CLI for this request
    priorTransfers,   \* transferTokens submissions of the earlier runs
    httpResp,         \* HTTP response handed to the attestation fetcher
    fetchBy,          \* which fetcher handled it
    fetchOut,         \* what the fetcher returned or raised
    ethBalance,       \* ethBalance read at line 40 (NotRead before)
    transferRecipient,\* recipientAddress the source transfer was called with
    feeRecipient,     \* feeRecipient submitTokenBridgeVaa was called with
    submittedVaa,     \* vaaBytes submitTokenBridgeVaa was called with
    runPc,            \* concurrent runs: position of each run in phase 2
    runSequence,      \* concurrent runs: each run's transferResult.sequence
    runMaxRetries,    \* concurrent runs: each run's maxRetries
    runInitialBackoff,\* concurrent runs: each run's initialBackoff
    runRetries,       \* concurrent runs: each pollVaa call's `retries`
    runBackoff,       \* concurrent runs: each pollVaa call's `backoff`
    runLookups,       \* concurrent runs: outcomes of each run's lookups
    runSleeps,        \* concurrent runs: durations of each run's sleeps
    runResult,        \* concurrent runs: each run's TransferResult
    shared,           \* two runs of transferUsdcViaWormhole on one token allowance
    twin,             \* two runs that differ in request.networkType only
    cctp              \* a run of transferUsdcViaCctp

vars == <<pc, amountStr, explicitRecipient, cfgBridge, cfgCoinType, maxRetries,
          initialBackoff, recipient, balance, initAllowance, allowance,
          approvedAmount, authRetries, authSleeps, txHash, sequence, eventSeq,
          path, retries, backoff, lookups, sleeps, vaaHex, destinationTx, calls,
          err, result, nResults, cancelRequested, exitCode, runNo,
          priorTransfers, httpResp, fetchBy, fetchOut, ethBalance,
          transferRecipient, feeRecipient, submittedVaa, runPc, runSequence,
          runMaxRetries, runInitialBackoff, runRetries, runBackoff, runLookups,
          runSleeps, runResult, shared, twin, cctp>>

----------------------------------------------------------------------------
(* Bounds of the model *)

MaxRetriesBound == 3
MaxTokens == 2
MaxRuns == 2

(* Program constants *)

BackoffCeiling == 30000
AllowanceMaxRetries == 5
PropagationDelay == 2000
AllowanceRetryDelay == 1000
MinEthRequired == 1
NoSequence == -1
NotRead == -1
NoExit == -1

AmountStrings == {5, 20}
InitialBackoffs == {2000, 20000, 40000}
Payloads == {"0x01aa|tail", "0x01bb"}
EventSequences == {NoSequence, 0, 42}
SourceTxHash == "0xSRC"
DestTxHash == "0xDST"
SponsorAddress == "0xSPONSOR"
HttpStatuses == {200, 404, 500, 503}
StatusTexts == {"OK", "Not Found", "Internal Server Error", "upstream not found",
                "see the 404 page"}
Bodies == Payloads \cup {"none", "invalid"}
Responses == [status : HttpStatuses, statusText : StatusTexts, body : Bodies]
UserAddress == "0xUSER"
Runs == {1, 2}


----------------------------------------------------------------------------
(* Pure helpers *)

\* number of occurrences of x in the log s
CountIn(s, x) == Cardinality({i \in DOMAIN s : s[i] = x})

\* BigInt(Math.floor(parseFloat(amount) * 1_000_000)); the amount string is
\* held in units of 10^-7 USDC, so the product is amountStr / 10, floored.
ToSmallestUnit(a) == a \div 10

Amount == ToSmallestUnit(amountStr)

\* a variant without the native gas check
GasInsufficientSkipped(eth) == FALSE

\* ethBalance < minEthRequired (balances in units of 0.001 ETH)
GasInsufficient(eth) == eth < MinEthRequired

\* an off-by-one variant of the balance check
BalanceInsufficientOffByOne(bal, amt) == bal < amt - 1

\* balance < amountInSmallestUnit
BalanceInsufficient(bal, amt) == bal < amt

\* a variant that also approves when the allowance equals the amount
\* a variant that never asks for an approval
NeedsApproveNever(allow, amt) == FALSE

NeedsApproveInclusive(allow, amt) == allow <= amt

\* allowance < amountInSmallestUnit
NeedsApprove(allow, amt) == allow < amt

\* approveAmount = amountInSmallestUnit * BigInt(2)
ApproveAmount(amt) == amt * 2

\* a variant of the loop condition that allows one attempt too many
\* a variant of the loop condition that tests after the first attempt
LoopContinuesAtLeastOnce(r, m) == r < m \/ r = 0

LoopContinuesInclusive(r, m) == r <= m

\* while (retries < maxRetries)
LoopContinues(r, m) == r < m

\* a variant of the sleep condition that skips the last sleep
ShouldSleepEarlyStop(r, m) == r < m - 1

\* a variant of the sleep condition that also sleeps after the last attempt
ShouldSleepAlways(r, m) == TRUE

\* if (retries < maxRetries) { sleep; backoff = ... }
ShouldSleep(r, m) == r < m

\* Durations are exact rationals <<numerator, denominator>>.
RatLeq(a, b) == a[1] * b[2] <= b[1] * a[2]
RatEq(a, b) == a[1] * b[2] = b[1] * a[2]
RatMin(a, b) == IF RatLeq(a, b) THEN a ELSE b

\* backoff = Math.min(backoff * 1.5, 30000)
NextBackoff(b) == RatMin(<<b[1] * 3, b[2] * 2>>, <<BackoffCeiling, 1>>)

\* if (vaa) ...: a payload is a non-empty string, null is "unavailable"
IsPayload(o) == o \in Payloads

\* error.code === 'INSUFFICIENT_FUNDS' || error.message?.includes('insufficient funds')
IsInsufficientFunds(e) == e \in {"INSUFFICIENT_FUNDS", "insufficient funds"}

\* `Failed to get VAA after ${maxRetries} retries. Transaction: ${txHash}`
TxTimeoutMessage(h) == "Failed to get VAA after retries. Transaction: " \o h

\* error.message?.includes('Insufficient USDC')
IsInsufficientUsdc(e) == e = "Insufficient USDC balance"

\* a variant that ignores the request's recipient
EffectiveRecipientAlwaysSigner(explicit) == SponsorAddress

\* request.recipientAddress || aptosSigner.address
EffectiveRecipient(explicit) == IF explicit THEN UserAddress ELSE SponsorAddress

\* !config.aptosTokenBridgeAddress || !config.aptosUsdcCoinType
ConfigMissing(bridge, coin) == ~bridge \/ ~coin

NoResponse == [status |-> 0, statusText |-> "", body |-> "none"]

NoResult == [success |-> FALSE, sourceTx |-> "unset", attestationId |-> "unset",
             destinationTx |-> "unset", error |-> "unset"]

\* the object literals returned by the catch block
FailureResult(msg) == [NoResult EXCEPT !.error = msg]

\* vaaHex.substring(0, 40): "0x01aa|tail" stands for a VAA longer than 40
\* characters whose first 40 are "0x01aa"; "0x01bb" for one of at most 40.
First40(vaa) == IF vaa = "0x01aa|tail" THEN "0x01aa" ELSE vaa

\* a variant of the success literal that leaves destinationTx out
SuccessResultNoDest(src, vaa, dst) ==
    [success |-> TRUE, sourceTx |-> src, attestationId |-> First40(vaa),
     destinationTx |-> "unset", error |-> "unset"]

\* the object literal returned on success
SuccessResult(src, vaa, dst) ==
    [success |-> TRUE, sourceTx |-> src, attestationId |-> First40(vaa),
     destinationTx |-> dst, error |-> "unset"]

Terminal == {"done", "rejected"}
SleepPcs == {"poll_sleep", "tx_sleep"}
PollPcs == {"poll_head", "poll_sleep"}

\* throw inside the try block: control goes to the catch block
Throw(e) == /\ pc' = "catch"
            /\ err' = e


----------------------------------------------------------------------------
(* The attestation fetcher as a function of the HTTP response *)

\* response.ok
ResponseOk(resp) == resp.status >= 200 /\ resp.status <= 299

\* the message of the Error thrown inside the try block, held as the status
\* and status text it is built from:
\* `Wormhole API error: ${response.status} ${response.statusText}`;
\* message.includes('404') || message.includes('not found')
MessageLooksNotFound(resp) ==
    \/ resp.status = 404
    \/ resp.statusText \in {"upstream not found", "see the 404 page"}

\* fetchVaaByTxHash, lines 37-60
FetchVaaByTxHashOutcome(resp) ==
    IF ~ResponseOk(resp)
    THEN IF resp.status = 404 THEN "unavailable"
         ELSE IF MessageLooksNotFound(resp) THEN "unavailable"
         ELSE "error"
    ELSE IF resp.body = "invalid" THEN "error"
    ELSE IF resp.body \in Payloads THEN resp.body
    ELSE "unavailable"

\* fetchVaaBySequence, lines 89-112
FetchVaaBySequenceOutcome(resp) ==
    IF ~ResponseOk(resp)
    THEN IF resp.status = 404 THEN "unavailable"
         ELSE IF MessageLooksNotFound(resp) THEN "unavailable"
         ELSE "error"
    ELSE IF resp.body = "invalid" THEN "error"
    ELSE IF resp.body \in Payloads THEN resp.body
    ELSE "unavailable"

\* a variant of main that does not call process.exit(1) on a failed result
ExitCodeIgnoresFailure(settled, success) == IF settled = "rejected" THEN 1 ELSE 0

\* main, lines 9-34 of the CLI wrapper: process.exit(1) on a failed result
\* and in main().catch; otherwise the process ends with code 0
ExitCodeOf(settled, success) ==
    IF settled = "rejected" THEN 1
    ELSE IF success THEN 0
    ELSE 1

----------------------------------------------------------------------------
(* State *)

params == <<amountStr, explicitRecipient, cfgBridge, cfgCoinType, maxRetries,
            initialBackoff>>
authVars == <<balance, initAllowance, allowance, approvedAmount, authRetries,
              authSleeps>>
srcVars == <<txHash, sequence, eventSeq>>
pollVars == <<path, retries, backoff, lookups, sleeps, vaaHex>>
outVars == <<result, nResults>>
hostVars == <<exitCode, runNo, priorTransfers>>
fetchVars == <<httpResp, fetchBy, fetchOut>>
callVars == <<ethBalance, transferRecipient, feeRecipient, submittedVaa>>
pairVars == <<runPc, runSequence, runMaxRetries, runInitialBackoff, runRetries,
              runBackoff, runLookups, runSleeps, runResult>>
sideVars == <<shared, twin, cctp>>
envVars == <<hostVars, fetchVars, pairVars, sideVars>>

\* the request, the loaded configuration and the call's parameters
RequestInit ==
    /\ amountStr \in AmountStrings
    /\ explicitRecipient \in BOOLEAN
    /\ cfgBridge \in BOOLEAN
    /\ cfgCoinType \in BOOLEAN
    /\ maxRetries \in 0..MaxRetriesBound
    /\ initialBackoff \in InitialBackoffs

\* the locals of a run as it enters transferUsdcWithWormholeOnly
RunLocalsStart ==
    /\ recipient = "unset"
    /\ balance = NotRead
    /\ initAllowance = NotRead
    /\ allowance = NotRead
    /\ approvedAmount = NotRead
    /\ authRetries = 0
    /\ authSleeps = <<>>
    /\ txHash = "unset"
    /\ sequence = NoSequence
    /\ eventSeq = NoSequence
    /\ path = "none"
    /\ retries = 0
    /\ backoff = <<0, 1>>
    /\ lookups = <<>>
    /\ sleeps = <<>>
    /\ vaaHex = "unset"
    /\ destinationTx = "unset"
    /\ calls = <<>>
    /\ err = "none"
    /\ result = NoResult
    /\ nResults = 0
    /\ cancelRequested = FALSE
    /\ ethBalance = NotRead
    /\ transferRecipient = "unset"
    /\ feeRecipient = "unset"
    /\ submittedVaa = "unset"

RunStart ==
    /\ pc = "start"
    /\ RunLocalsStart

\* the CLI process has just started, for the first time
HostStart ==
    /\ exitCode = NoExit
    /\ runNo = 1
    /\ priorTransfers = 0

\* no fetcher call is being examined
FetchIdle ==
    /\ httpResp = NoResponse
    /\ fetchBy = "none"
    /\ fetchOut = "idle"

\* no concurrent runs are being examined
PairIdle ==
    /\ runPc = [r \in Runs |-> "idle"]
    /\ runSequence = [r \in Runs |-> NoSequence]
    /\ runMaxRetries = [r \in Runs |-> 0]
    /\ runInitialBackoff = [r \in Runs |-> 0]
    /\ runRetries = [r \in Runs |-> 0]
    /\ runBackoff = [r \in Runs |-> <<0, 1>>]
    /\ runLookups = [r \in Runs |-> <<>>]
    /\ runSleeps = [r \in Runs |-> <<>>]
    /\ runResult = [r \in Runs |-> NoResult]

\* no pair of runs on one token allowance is being examined
SharedIdle ==
    shared = [allowance |-> 0,
              pc |-> [r \in Runs |-> "idle"],
              amount |-> [r \in Runs |-> 0],
              read |-> [r \in Runs |-> NotRead],
              retries |-> [r \in Runs |-> 0],
              atSubmit |-> [r \in Runs |-> NotRead]]

\* no pair of runs that differ in request.networkType is being examined
TwinIdle ==
    twin = [cfgNet |-> "Testnet",
            reqNet |-> [r \in Runs |-> "absent"],
            pc |-> [r \in Runs |-> "idle"],
            retries |-> [r \in Runs |-> 0],
            vaa |-> [r \in Runs |-> "unset"],
            trace |-> [r \in Runs |-> <<>>],
            result |-> [r \in Runs |-> NoResult]]

\* a pending circleTransfer.fetchAttestation
NoAttestation == [kind |-> "pending", ids |-> <<>>]

\* transferUsdcViaCctp has not been called
CctpIdle ==
    cctp = [pc |-> "idle", amount |-> 0, destGiven |-> FALSE, quoteOk |-> FALSE,
            calls |-> <<>>, sourceTx |-> "unset", attestation |-> NoAttestation,
            destinationTx |-> "unset", err |-> "none", result |-> NoResult]

SideIdle ==
    /\ SharedIdle
    /\ TwinIdle
    /\ CctpIdle

Init ==
    /\ RequestInit
    /\ RunStart
    /\ HostStart
    /\ FetchIdle
    /\ PairIdle
    /\ SideIdle

----------------------------------------------------------------------------
(* transferUsdcWithWormholeOnly, lines 40-50: signers and recipient *)

GetSigners ==
    /\ pc = "start"
    /\ \/ /\ recipient' = EffectiveRecipient(explicitRecipient)
          /\ pc' = "gas_check"
          /\ UNCHANGED err
       \/ /\ Throw("Invalid private key")
          /\ UNCHANGED recipient
    /\ UNCHANGED <<params, envVars, callVars, authVars, srcVars, pollVars, outVars, destinationTx,
                   calls, cancelRequested>>

(* transferUsdcViaWormhole, lines 39-53: native gas pre-flight check *)

CheckGas ==
    /\ pc = "gas_check"
    /\ calls' = Append(calls, "getBalance")
    /\ \/ \E eth \in 0..MinEthRequired :
             /\ ethBalance' = eth
             /\ IF GasInsufficient(eth)
                THEN Throw("Insufficient ETH for gas fees")
                ELSE pc' = "bal_check" /\ UNCHANGED err
       \/ Throw("RPC error") /\ UNCHANGED ethBalance
    /\ UNCHANGED <<params, envVars, transferRecipient, feeRecipient, submittedVaa,
                   authVars, srcVars, pollVars, outVars, recipient,
                   destinationTx, cancelRequested>>

(* transferUsdcViaWormhole, lines 63-75: token balance pre-flight check *)

CheckBalance ==
    /\ pc = "bal_check"
    /\ calls' = Append(calls, "balanceOf")
    /\ \/ \E bal \in 0..MaxTokens :
             /\ balance' = bal
             /\ IF BalanceInsufficient(bal, Amount)
                THEN Throw("Insufficient USDC balance")
                ELSE pc' = "allow_check" /\ UNCHANGED err
       \/ Throw("RPC error") /\ UNCHANGED balance
    /\ UNCHANGED <<params, envVars, callVars, initAllowance, allowance, approvedAmount, authRetries,
                   authSleeps, srcVars, pollVars, outVars, recipient,
                   destinationTx, cancelRequested>>

(* transferUsdcViaWormhole, lines 77-79 and 127-129: first allowance read *)

CheckAllowance ==
    /\ pc = "allow_check"
    /\ calls' = Append(calls, "allowance")
    /\ \/ \E a \in 0..MaxTokens :
             /\ initAllowance' = a
             /\ allowance' = a
             /\ pc' = IF NeedsApprove(a, Amount) THEN "approve" ELSE "transfer"
             /\ UNCHANGED err
       \/ Throw("RPC error") /\ UNCHANGED <<initAllowance, allowance>>
    /\ UNCHANGED <<params, envVars, callVars, balance, approvedAmount, authRetries, authSleeps,
                   srcVars, pollVars, outVars, recipient, destinationTx,
                   cancelRequested>>

(* transferUsdcViaWormhole, lines 84-87: the allowance-raising transaction *)

Approve ==
    /\ pc = "approve"
    /\ calls' = Append(calls, "approve")
    /\ approvedAmount' = ApproveAmount(Amount)
    /\ \/ pc' = "approve_wait" /\ UNCHANGED err
       \/ \E e \in {"RPC error", "INSUFFICIENT_FUNDS", "insufficient funds"} :
             Throw(e)
    /\ UNCHANGED <<params, envVars, callVars, balance, initAllowance, allowance, authRetries,
                   authSleeps, srcVars, pollVars, outVars, recipient,
                   destinationTx, cancelRequested>>

(* transferUsdcViaWormhole, lines 90-103: approval receipt, propagation wait *)

ApproveWait ==
    /\ pc = "approve_wait"
    /\ calls' = Append(calls, "approveWait")
    /\ \/ /\ pc' = "allow_recheck"
          /\ authSleeps' = Append(authSleeps, PropagationDelay)
          /\ authRetries' = 0
          /\ UNCHANGED err
       \/ /\ \E e \in {"Approval transaction failed", "RPC error"} : Throw(e)
          /\ UNCHANGED <<authSleeps, authRetries>>
    /\ UNCHANGED <<params, envVars, callVars, balance, initAllowance, allowance, approvedAmount,
                   srcVars, pollVars, outVars, recipient, destinationTx,
                   cancelRequested>>

(* A variant of the re-read loop that goes on to the transfer when the       *)
(* budget is spent without the allowance being verified.                    *)

AllowanceRecheckProceeds ==
    /\ pc = "allow_recheck"
    /\ authRetries < AllowanceMaxRetries
    /\ calls' = Append(calls, "allowance")
    /\ \/ \E a \in 0..MaxTokens :
             /\ allowance' = a
             /\ IF a >= Amount
                THEN /\ pc' = "transfer"
                     /\ UNCHANGED <<err, authRetries, authSleeps>>
                ELSE /\ authRetries' = authRetries + 1
                     /\ IF authRetries + 1 < AllowanceMaxRetries
                        THEN /\ authSleeps' = Append(authSleeps, AllowanceRetryDelay)
                             /\ UNCHANGED <<pc, err>>
                        ELSE /\ pc' = "transfer"
                             /\ UNCHANGED <<err, authSleeps>>
       \/ /\ Throw("RPC error")
          /\ UNCHANGED <<allowance, authRetries, authSleeps>>
    /\ UNCHANGED <<params, envVars, callVars, balance, initAllowance, approvedAmount,
                   srcVars, pollVars, outVars, recipient, destinationTx,
                   cancelRequested>>

(* A variant of the re-read loop whose budget is the poller's maxRetries.    *)

AllowanceRecheckUsesPollBudget ==
    /\ pc = "allow_recheck"
    /\ authRetries < maxRetries
    /\ calls' = Append(calls, "allowance")
    /\ \/ \E a \in 0..MaxTokens :
             /\ allowance' = a
             /\ IF a >= Amount
                THEN /\ pc' = "transfer"
                     /\ UNCHANGED <<err, authRetries, authSleeps>>
                ELSE /\ authRetries' = authRetries + 1
                     /\ IF authRetries + 1 < maxRetries
                        THEN /\ authSleeps' = Append(authSleeps, AllowanceRetryDelay)
                             /\ UNCHANGED <<pc, err>>
                        ELSE /\ Throw("Approval failed: allowance less than required")
                             /\ UNCHANGED authSleeps
       \/ /\ Throw("RPC error")
          /\ UNCHANGED <<allowance, authRetries, authSleeps>>
    /\ UNCHANGED <<params, envVars, callVars, balance, initAllowance, approvedAmount, srcVars,
                   pollVars, outVars, recipient, destinationTx, cancelRequested>>

(* transferUsdcViaWormhole, lines 105-126: bounded allowance re-read *)

AllowanceRecheck ==
    /\ pc = "allow_recheck"
    /\ authRetries < AllowanceMaxRetries
    /\ calls' = Append(calls, "allowance")
    /\ \/ \E a \in 0..MaxTokens :
             /\ allowance' = a
             /\ IF a >= Amount
                THEN /\ pc' = "transfer"
                     /\ UNCHANGED <<err, authRetries, authSleeps>>
                ELSE /\ authRetries' = authRetries + 1
                     /\ IF authRetries + 1 < AllowanceMaxRetries
                        THEN /\ authSleeps' = Append(authSleeps, AllowanceRetryDelay)
                             /\ UNCHANGED <<pc, err>>
                        ELSE /\ Throw("Approval failed: allowance less than required")
                             /\ UNCHANGED authSleeps
       \/ /\ Throw("RPC error")
          /\ UNCHANGED <<allowance, authRetries, authSleeps>>
    /\ UNCHANGED <<params, envVars, callVars, balance, initAllowance, approvedAmount, srcVars,
                   pollVars, outVars, recipient, destinationTx, cancelRequested>>


(* transferUsdcViaWormhole, lines 157-164: the source-chain transferTokens *)

SubmitTransfer ==
    /\ pc = "transfer"
    /\ calls' = Append(calls, "transferTokens")
    /\ transferRecipient' = recipient
    /\ \/ pc' = "transfer_wait" /\ UNCHANGED err
       \/ \E e \in {"RPC error", "INSUFFICIENT_FUNDS", "insufficient funds"} :
             Throw(e)
    /\ UNCHANGED <<params, envVars, ethBalance, feeRecipient, submittedVaa, authVars, srcVars, pollVars, outVars, recipient,
                   destinationTx, cancelRequested>>

(* A variant of the receipt handling that takes the unreachable throw of    *)
(* lines 245-250 when the events carry no sequence.                         *)

TransferWaitRequiresSequence ==
    /\ pc = "transfer_wait"
    /\ calls' = Append(calls, "transferWait")
    /\ \/ \E ev \in EventSequences :
             /\ txHash' = SourceTxHash
             /\ eventSeq' = ev
             /\ IF ev = NoSequence
                THEN /\ Throw("Could not find sequence in transaction")
                     /\ UNCHANGED <<sequence, path, retries, backoff>>
                ELSE /\ sequence' = ev
                     /\ path' = IF ev = 0 THEN "tx" ELSE "seq"
                     /\ pc' = IF ev = 0 THEN "tx_first" ELSE "poll_head"
                     /\ retries' = 0
                     /\ backoff' = <<initialBackoff, 1>>
                     /\ UNCHANGED err
       \/ /\ \E e \in {"Transfer transaction failed", "RPC error"} : Throw(e)
          /\ UNCHANGED <<srcVars, path, retries, backoff>>
    /\ UNCHANGED <<params, envVars, callVars, authVars, lookups, sleeps, vaaHex, outVars,
                   recipient, destinationTx, cancelRequested>>

(* transferUsdcViaWormhole, lines 169-259: receipt and sequence extraction; *)
(* transferUsdcWithWormholeOnly, lines 61-76 and 105-113: choice of lookup  *)

TransferWait ==
    /\ pc = "transfer_wait"
    /\ calls' = Append(calls, "transferWait")
    /\ \/ \E ev \in EventSequences :
             LET seq == IF ev = NoSequence THEN 0 ELSE ev IN
             /\ txHash' = SourceTxHash
             /\ sequence' = seq
             /\ eventSeq' = ev
             /\ IF seq = 0
                THEN /\ path' = "tx"
                     /\ pc' = "tx_first"
                     /\ UNCHANGED <<retries, backoff>>
                ELSE /\ path' = "seq"
                     /\ pc' = "poll_head"
                     /\ retries' = 0
                     /\ backoff' = <<initialBackoff, 1>>
             /\ UNCHANGED err
       \/ /\ \E e \in {"Transfer transaction failed", "RPC error"} : Throw(e)
          /\ UNCHANGED <<srcVars, path, retries, backoff>>
    /\ UNCHANGED <<params, envVars, callVars, authVars, lookups, sleeps, vaaHex, outVars, recipient,
                   destinationTx, cancelRequested>>

----------------------------------------------------------------------------
(* A variant of the polling attempt without the try/catch around the       *)
(* lookup: a transport error ends the polling.                              *)

PollLookupAbortsOnError ==
    /\ pc = "poll_head"
    /\ LoopContinues(retries, maxRetries)
    /\ calls' = Append(calls, "fetchVaaBySequence")
    /\ \E o \in Payloads \cup {"unavailable", "error"} :
          /\ lookups' = Append(lookups, o)
          /\ IF IsPayload(o)
             THEN /\ vaaHex' = o
                  /\ pc' = "cfg_check"
                  /\ UNCHANGED <<retries, sleeps, err>>
             ELSE IF o = "unavailable"
             THEN /\ retries' = retries + 1
                  /\ IF ShouldSleep(retries + 1, maxRetries)
                     THEN /\ pc' = "poll_sleep"
                          /\ sleeps' = Append(sleeps, backoff)
                     ELSE UNCHANGED <<pc, sleeps>>
                  /\ UNCHANGED <<vaaHex, err>>
             ELSE /\ Throw("Wormhole API error")
                  /\ UNCHANGED <<vaaHex, retries, sleeps>>
    /\ UNCHANGED <<params, envVars, callVars, authVars, srcVars, path, backoff, outVars,
                   recipient, destinationTx, cancelRequested>>

(* pollVaa, lines 135-148: one attempt of the polling loop *)

PollLookup ==
    /\ pc = "poll_head"
    /\ LoopContinues(retries, maxRetries)
    /\ calls' = Append(calls, "fetchVaaBySequence")
    /\ \E o \in Payloads \cup {"unavailable", "error"} :
          /\ lookups' = Append(lookups, o)
          /\ IF IsPayload(o)
             THEN /\ vaaHex' = o
                  /\ pc' = "cfg_check"
                  /\ UNCHANGED <<retries, sleeps>>
             ELSE /\ retries' = retries + 1
                  /\ IF ShouldSleep(retries + 1, maxRetries)
                     THEN /\ pc' = "poll_sleep"
                          /\ sleeps' = Append(sleeps, backoff)
                     ELSE UNCHANGED <<pc, sleeps>>
                  /\ UNCHANGED vaaHex
    /\ UNCHANGED <<params, envVars, callVars, authVars, srcVars, path, backoff, outVars, recipient,
                   destinationTx, err, cancelRequested>>

(* pollVaa, lines 150-153: the sleep returns, the backoff grows *)

PollSleepDone ==
    /\ pc = "poll_sleep"
    /\ backoff' = NextBackoff(backoff)
    /\ pc' = "poll_head"
    /\ UNCHANGED <<params, envVars, callVars, authVars, srcVars, path, retries, lookups, sleeps,
                   vaaHex, outVars, recipient, destinationTx, calls, err,
                   cancelRequested>>

(* pollVaa, line 156: the attempt budget is spent *)

PollExhausted ==
    /\ pc = "poll_head"
    /\ ~LoopContinues(retries, maxRetries)
    /\ Throw("Failed to get VAA after retries")
    /\ UNCHANGED <<params, envVars, callVars, authVars, srcVars, pollVars, outVars, recipient,
                   destinationTx, calls, cancelRequested>>

----------------------------------------------------------------------------
(* transferUsdcWithWormholeOnly, lines 79-85: first lookup by tx hash *)

TxFirstLookup ==
    /\ pc = "tx_first"
    /\ calls' = Append(calls, "fetchVaaByTxHash")
    /\ \E o \in Payloads \cup {"unavailable", "error"} :
          /\ lookups' = Append(lookups, o)
          /\ IF IsPayload(o)
             THEN /\ vaaHex' = o
                  /\ pc' = "cfg_check"
                  /\ UNCHANGED <<retries, backoff, err>>
             ELSE IF o = "unavailable"
             THEN /\ retries' = 0
                  /\ backoff' = <<initialBackoff, 1>>
                  /\ pc' = "tx_head"
                  /\ UNCHANGED <<vaaHex, err>>
             ELSE /\ Throw("Wormhole API error")
                  /\ UNCHANGED <<vaaHex, retries, backoff>>
    /\ UNCHANGED <<params, envVars, callVars, authVars, srcVars, path, sleeps, outVars, recipient,
                   destinationTx, cancelRequested>>

(* transferUsdcWithWormholeOnly, lines 87-97: one attempt of the by-hash loop *)

TxLookup ==
    /\ pc = "tx_head"
    /\ LoopContinues(retries, maxRetries)
    /\ calls' = Append(calls, "fetchVaaByTxHash")
    /\ \E o \in Payloads \cup {"unavailable", "error"} :
          /\ lookups' = Append(lookups, o)
          /\ IF IsPayload(o)
             THEN /\ vaaHex' = o
                  /\ pc' = "cfg_check"
                  /\ UNCHANGED <<retries, sleeps, err>>
             ELSE IF o = "unavailable"
             THEN /\ retries' = retries + 1
                  /\ IF ShouldSleep(retries + 1, maxRetries)
                     THEN /\ pc' = "tx_sleep"
                          /\ sleeps' = Append(sleeps, backoff)
                     ELSE UNCHANGED <<pc, sleeps>>
                  /\ UNCHANGED <<vaaHex, err>>
             ELSE /\ Throw("Wormhole API error")
                  /\ UNCHANGED <<vaaHex, retries, sleeps>>
    /\ UNCHANGED <<params, envVars, callVars, authVars, srcVars, path, backoff, outVars, recipient,
                   destinationTx, cancelRequested>>

(* A variant of the by-hash loop whose backoff doubles instead of growing   *)
(* by half.                                                                 *)

TxSleepDoneDoubles ==
    /\ pc = "tx_sleep"
    /\ backoff' = RatMin(<<backoff[1] * 2, backoff[2]>>, <<BackoffCeiling, 1>>)
    /\ pc' = "tx_head"
    /\ UNCHANGED <<params, envVars, callVars, authVars, srcVars, path, retries, lookups,
                   sleeps, vaaHex, outVars, recipient, destinationTx, calls, err,
                   cancelRequested>>

(* transferUsdcWithWormholeOnly, lines 94-95 *)

TxSleepDone ==
    /\ pc = "tx_sleep"
    /\ backoff' = NextBackoff(backoff)
    /\ pc' = "tx_head"
    /\ UNCHANGED <<params, envVars, callVars, authVars, srcVars, path, retries, lookups, sleeps,
                   vaaHex, outVars, recipient, destinationTx, calls, err,
                   cancelRequested>>

(* transferUsdcWithWormholeOnly, lines 99-101 *)

(* A variant of the fallback's failure that raises pollVaa's message, which *)
(* names no transaction.                                                    *)

TxExhaustedNoHash ==
    /\ pc = "tx_head"
    /\ ~LoopContinues(retries, maxRetries)
    /\ Throw("Failed to get VAA after retries")
    /\ UNCHANGED <<params, envVars, callVars, authVars, srcVars, pollVars, outVars, recipient,
                   destinationTx, calls, cancelRequested>>

TxExhausted ==
    /\ pc = "tx_head"
    /\ ~LoopContinues(retries, maxRetries)
    /\ Throw(TxTimeoutMessage(txHash))
    /\ UNCHANGED <<params, envVars, callVars, authVars, srcVars, pollVars, outVars, recipient,
                   destinationTx, calls, cancelRequested>>

----------------------------------------------------------------------------
(* transferUsdcWithWormholeOnly, lines 121-123: destination configuration *)

CheckConfig ==
    /\ pc = "cfg_check"
    /\ IF ConfigMissing(cfgBridge, cfgCoinType)
       THEN Throw("Missing Aptos configuration")
       ELSE pc' = "dest_submit" /\ UNCHANGED err
    /\ UNCHANGED <<params, envVars, callVars, authVars, srcVars, pollVars, outVars, recipient,
                   destinationTx, calls, cancelRequested>>

(* A variant of the destination step that returns success as soon as the   *)
(* completion transaction is submitted, without waiting for it.             *)

SubmitVaaNoWait ==
    /\ pc = "dest_submit"
    /\ feeRecipient' = recipient
    /\ submittedVaa' = vaaHex
    /\ \/ /\ calls' = Append(calls, "submit_vaa_entry")
          /\ destinationTx' = DestTxHash
          /\ result' = SuccessResult(txHash, vaaHex, DestTxHash)
          /\ nResults' = nResults + 1
          /\ pc' = "done"
          /\ UNCHANGED err
       \/ /\ Throw("Aptos transaction build error")
          /\ UNCHANGED <<calls, destinationTx, outVars>>
    /\ UNCHANGED <<params, envVars, ethBalance, transferRecipient, authVars, srcVars, pollVars, recipient,
                   cancelRequested>>

(* A variant of the destination step that hands over only the first 40      *)
(* characters of the VAA.                                                   *)

SubmitVaaTruncates ==
    /\ pc = "dest_submit"
    /\ feeRecipient' = recipient
    /\ submittedVaa' = First40(vaaHex)
    /\ \/ /\ calls' = Append(calls, "submit_vaa_entry")
          /\ destinationTx' = DestTxHash
          /\ pc' = "dest_wait"
          /\ UNCHANGED err
       \/ /\ calls' = Append(calls, "submit_vaa_entry")
          /\ Throw("Aptos submit error")
          /\ UNCHANGED destinationTx
       \/ /\ Throw("Aptos transaction build error")
          /\ UNCHANGED <<calls, destinationTx>>
    /\ UNCHANGED <<params, envVars, ethBalance, transferRecipient, authVars,
                   srcVars, pollVars, outVars, recipient, cancelRequested>>

(* transferUsdcWithWormholeOnly, lines 125-131; submitTokenBridgeVaa *)

SubmitVaa ==
    /\ pc = "dest_submit"
    /\ feeRecipient' = recipient
    /\ submittedVaa' = vaaHex
    /\ \/ /\ calls' = Append(calls, "submit_vaa_entry")
          /\ destinationTx' = DestTxHash
          /\ pc' = "dest_wait"
          /\ UNCHANGED err
       \/ /\ calls' = Append(calls, "submit_vaa_entry")
          /\ Throw("Aptos submit error")
          /\ UNCHANGED destinationTx
       \/ /\ Throw("Aptos transaction build error")
          /\ UNCHANGED <<calls, destinationTx>>
    /\ UNCHANGED <<params, envVars, ethBalance, transferRecipient, authVars, srcVars, pollVars, outVars, recipient,
                   cancelRequested>>

(* A variant of the finality wait that submits the completion again when   *)
(* the wait fails.                                                          *)

WaitDestinationResubmits ==
    /\ pc = "dest_wait"
    /\ calls' = Append(calls, "waitForTransaction")
    /\ \/ /\ result' = SuccessResult(txHash, vaaHex, destinationTx)
          /\ nResults' = nResults + 1
          /\ pc' = "done"
       \/ /\ pc' = "dest_submit"
          /\ UNCHANGED outVars
    /\ UNCHANGED <<params, envVars, callVars, authVars, srcVars, pollVars, recipient,
                   destinationTx, err, cancelRequested>>

(* transferUsdcWithWormholeOnly, lines 137-145: finality, success result *)

WaitDestination ==
    /\ pc = "dest_wait"
    /\ calls' = Append(calls, "waitForTransaction")
    /\ \/ /\ result' = SuccessResult(txHash, vaaHex, destinationTx)
          /\ nResults' = nResults + 1
          /\ pc' = "done"
          /\ UNCHANGED err
       \/ /\ Throw("Aptos transaction failed")
          /\ UNCHANGED outVars
    /\ UNCHANGED <<params, envVars, callVars, authVars, srcVars, pollVars, recipient, destinationTx,
                   cancelRequested>>

(* A variant of the catch block that drives the source transfer again after *)
(* a failure of a later phase.                                              *)

CatchResubmits ==
    /\ pc = "catch"
    /\ IF txHash # "unset"
       THEN /\ pc' = "transfer"
            /\ UNCHANGED outVars
       ELSE /\ pc' = "done"
            /\ result' = FailureResult(err)
            /\ nResults' = nResults + 1
    /\ UNCHANGED <<params, envVars, callVars, authVars, srcVars, pollVars, recipient, destinationTx,
                   calls, err, cancelRequested>>

(* A variant of the catch block that starts the attestation polling again   *)
(* when the attempt budget was spent.                                       *)

CatchRetriesPolling ==
    /\ pc = "catch"
    /\ IF err = "Failed to get VAA after retries"
       THEN /\ pc' = IF path = "seq" THEN "poll_head" ELSE "tx_head"
            /\ retries' = 0
            /\ UNCHANGED outVars
       ELSE /\ UNCHANGED retries
            /\ IF IsInsufficientFunds(err)
               THEN /\ pc' = "rejected"
                    /\ UNCHANGED outVars
               ELSE /\ pc' = "done"
                    /\ result' = FailureResult(err)
                    /\ nResults' = nResults + 1
    /\ UNCHANGED <<params, envVars, callVars, authVars, srcVars, path, backoff, lookups,
                   sleeps, vaaHex, recipient, destinationTx, calls, err,
                   cancelRequested>>

(* transferUsdcWithWormholeOnly, lines 147-174: the catch block.  baseSigner *)
(* is declared inside the try block, so reading it in the first branch       *)
(* raises a ReferenceError and the promise rejects.                          *)

Catch ==
    /\ pc = "catch"
    /\ IF IsInsufficientFunds(err)
       THEN /\ pc' = "rejected"
            /\ UNCHANGED outVars
       ELSE /\ pc' = "done"
            /\ result' = FailureResult(err)
            /\ nResults' = nResults + 1
    /\ UNCHANGED <<params, envVars, callVars, authVars, srcVars, pollVars, recipient, destinationTx,
                   calls, err, cancelRequested>>

(* transferUsdcWithWormholeOnly, lines 29-33, and pollVaa, lines 125-131:   *)
(* neither signature takes an abort signal.  The caller raises a            *)
(* cancellation while the run is in a backoff sleep; the run does not       *)
(* observe it.                                                              *)

CancelDuringSleep ==
    /\ pc \in SleepPcs
    /\ ~cancelRequested
    /\ cancelRequested' = TRUE
    /\ UNCHANGED <<pc, params, envVars, callVars, authVars, srcVars, pollVars, outVars,
                   recipient, destinationTx, calls, err>>

(* main of the CLI wrapper, lines 4-34: the process exits *)

MainExit ==
    /\ pc \in Terminal
    /\ exitCode = NoExit
    /\ exitCode' = ExitCodeOf(pc, result.success)
    /\ UNCHANGED <<pc, params, runNo, priorTransfers, fetchVars, pairVars, sideVars, callVars,
                   authVars, srcVars,
                   pollVars, outVars, recipient, destinationTx, calls, err,
                   cancelRequested>>

(* The operator runs the CLI again for the same request after a run that    *)
(* failed with the source transfer confirmed.  Nothing of the failed run is *)
(* kept by the program: the new process starts from the same request.       *)

Rerun ==
    /\ pc = "done"
    /\ exitCode = 1
    /\ result.success = FALSE
    /\ txHash # "unset"
    /\ runNo < MaxRuns
    /\ runNo' = runNo + 1
    /\ priorTransfers' = priorTransfers + CountIn(calls, "transferTokens")
    /\ exitCode' = NoExit
    /\ pc' = "start"
    /\ recipient' = "unset"
    /\ balance' = NotRead
    /\ initAllowance' = NotRead
    /\ allowance' = NotRead
    /\ approvedAmount' = NotRead
    /\ authRetries' = 0
    /\ authSleeps' = <<>>
    /\ txHash' = "unset"
    /\ sequence' = NoSequence
    /\ eventSeq' = NoSequence
    /\ path' = "none"
    /\ retries' = 0
    /\ backoff' = <<0, 1>>
    /\ lookups' = <<>>
    /\ sleeps' = <<>>
    /\ vaaHex' = "unset"
    /\ destinationTx' = "unset"
    /\ calls' = <<>>
    /\ err' = "none"
    /\ result' = NoResult
    /\ nResults' = 0
    /\ cancelRequested' = FALSE
    /\ ethBalance' = NotRead
    /\ transferRecipient' = "unset"
    /\ feeRecipient' = "unset"
    /\ submittedVaa' = "unset"
    /\ UNCHANGED <<params, fetchVars, pairVars, sideVars>>

(* fetchVaaByTxHash and fetchVaaBySequence applied to an HTTP response *)

FetchVaaByTxHash ==
    /\ fetchOut = "idle"
    /\ httpResp \in Responses
    /\ fetchBy' = "txHash"
    /\ fetchOut' = FetchVaaByTxHashOutcome(httpResp)
    /\ UNCHANGED <<pc, params, hostVars, httpResp, pairVars, sideVars, callVars, authVars,
                   srcVars, pollVars, outVars, recipient, destinationTx, calls,
                   err, cancelRequested>>

FetchVaaBySequence ==
    /\ fetchOut = "idle"
    /\ httpResp \in Responses
    /\ fetchBy' = "sequence"
    /\ fetchOut' = FetchVaaBySequenceOutcome(httpResp)
    /\ UNCHANGED <<pc, params, hostVars, httpResp, pairVars, sideVars, callVars, authVars,
                   srcVars, pollVars, outVars, recipient, destinationTx, calls,
                   err, cancelRequested>>

----------------------------------------------------------------------------
(* Two runs of transferUsdcWithWormholeOnly in phase 2, interleaved at their *)
(* awaits.  retries and backoff are locals of each pollVaa call; config is  *)
(* only read.                                                               *)

mainVars == <<pc, params, hostVars, fetchVars, callVars, authVars, srcVars,
              pollVars, outVars, recipient, destinationTx, calls, err,
              cancelRequested>>
soloVars == <<mainVars, sideVars>>

RunTxHash(r) == IF r = 1 THEN "0xSRC1" ELSE "0xSRC2"

(* pollVaa, lines 135-148, in run r *)

RunPollLookup(r) ==
    /\ runPc[r] = "poll_head"
    /\ LoopContinues(runRetries[r], runMaxRetries[r])
    /\ \E o \in Payloads \cup {"unavailable", "error"} :
          /\ runLookups' = [runLookups EXCEPT ![r] = Append(@, o)]
          /\ IF IsPayload(o)
             THEN /\ runPc' = [runPc EXCEPT ![r] = "dest"]
                  /\ UNCHANGED <<runRetries, runSleeps>>
             ELSE /\ runRetries' = [runRetries EXCEPT ![r] = @ + 1]
                  /\ IF ShouldSleep(runRetries[r] + 1, runMaxRetries[r])
                     THEN /\ runPc' = [runPc EXCEPT ![r] = "poll_sleep"]
                          /\ runSleeps' = [runSleeps EXCEPT
                                              ![r] = Append(@, runBackoff[r])]
                     ELSE UNCHANGED <<runPc, runSleeps>>
    /\ UNCHANGED <<soloVars, runSequence, runMaxRetries, runInitialBackoff,
                   runBackoff, runResult>>

(* A variant in which backoff is one variable of the module, written by     *)
(* every run.                                                               *)

RunSleepDoneSharedBackoff(r) ==
    /\ runPc[r] = "poll_sleep"
    /\ runBackoff' = [q \in Runs |-> NextBackoff(runBackoff[r])]
    /\ runPc' = [runPc EXCEPT ![r] = "poll_head"]
    /\ UNCHANGED <<soloVars, runSequence, runMaxRetries, runInitialBackoff,
                   runRetries, runLookups, runSleeps, runResult>>

(* pollVaa, lines 150-153, in run r *)

RunSleepDone(r) ==
    /\ runPc[r] = "poll_sleep"
    /\ runBackoff' = [runBackoff EXCEPT ![r] = NextBackoff(@)]
    /\ runPc' = [runPc EXCEPT ![r] = "poll_head"]
    /\ UNCHANGED <<soloVars, runSequence, runMaxRetries, runInitialBackoff,
                   runRetries, runLookups, runSleeps, runResult>>

(* pollVaa, line 156, and the catch block, lines 170-173, in run r *)

RunPollExhausted(r) ==
    /\ runPc[r] = "poll_head"
    /\ ~LoopContinues(runRetries[r], runMaxRetries[r])
    /\ runResult' = [runResult EXCEPT
                        ![r] = FailureResult("Failed to get VAA after retries")]
    /\ runPc' = [runPc EXCEPT ![r] = "done"]
    /\ UNCHANGED <<soloVars, runSequence, runMaxRetries, runInitialBackoff,
                   runRetries, runBackoff, runLookups, runSleeps>>

(* transferUsdcWithWormholeOnly, lines 125-145 and 170-173, in run r *)

RunComplete(r) ==
    /\ runPc[r] = "dest"
    /\ \/ runResult' = [runResult EXCEPT
                           ![r] = SuccessResult(RunTxHash(r),
                                                runLookups[r][Len(runLookups[r])],
                                                DestTxHash)]
       \/ runResult' = [runResult EXCEPT
                           ![r] = FailureResult("Aptos transaction failed")]
    /\ runPc' = [runPc EXCEPT ![r] = "done"]
    /\ UNCHANGED <<soloVars, runSequence, runMaxRetries, runInitialBackoff,
                   runRetries, runBackoff, runLookups, runSleeps>>

RunStep(r) ==
    \/ RunPollLookup(r)
    \/ RunSleepDone(r)
    \/ RunPollExhausted(r)
    \/ RunComplete(r)

----------------------------------------------------------------------------

Next ==
    \/ GetSigners
    \/ CheckGas
    \/ CheckBalance
    \/ CheckAllowance
    \/ Approve
    \/ ApproveWait
    \/ AllowanceRecheck
    \/ SubmitTransfer
    \/ TransferWait
    \/ PollLookup
    \/ PollSleepDone
    \/ PollExhausted
    \/ TxFirstLookup
    \/ TxLookup
    \/ TxSleepDone
    \/ TxExhausted
    \/ CheckConfig
    \/ SubmitVaa
    \/ WaitDestination
    \/ Catch
    \/ CancelDuringSleep

Spec == Init /\ [][Next]_vars

(* The run called with the default initialBackoff (line 32), for the        *)
(* properties of its calls, which the sleep durations do not touch.         *)

FlowInit ==
    /\ Init
    /\ initialBackoff = 2000

SpecFlow == FlowInit /\ [][Next]_vars

(* The CLI wrapper: main calls the transfer with the request only (no       *)
(* recipient, default initialBackoff), exits, and may be run again by the   *)
(* operator.                                                                *)

CliInit ==
    /\ Init
    /\ initialBackoff = 2000
    /\ ~explicitRecipient

CliNext == Next \/ MainExit \/ Rerun

SpecCli == CliInit /\ [][CliNext]_vars

(* The fetcher alone, over the HTTP responses *)

FetchInit ==
    /\ amountStr = 20
    /\ explicitRecipient = FALSE
    /\ cfgBridge = TRUE
    /\ cfgCoinType = TRUE
    /\ maxRetries = MaxRetriesBound
    /\ initialBackoff = 2000
    /\ RunStart
    /\ HostStart
    /\ httpResp \in Responses
    /\ fetchBy = "none"
    /\ fetchOut = "idle"
    /\ PairIdle
    /\ SideIdle

FetchNext == FetchVaaByTxHash \/ FetchVaaBySequence

SpecFetch == FetchInit /\ [][FetchNext]_vars

(* Phase 2 alone: the run as TransferWait leaves it, on either lookup path. *)
(* Every lookup and every sleep returns.                                    *)

PollEntry ==
    /\ amountStr = 20
    /\ explicitRecipient = FALSE
    /\ cfgBridge = TRUE
    /\ cfgCoinType = TRUE
    /\ initialBackoff \in InitialBackoffs
    /\ recipient = SponsorAddress
    /\ ethBalance = MinEthRequired
    /\ balance = Amount
    /\ initAllowance = Amount
    /\ allowance = Amount
    /\ approvedAmount = NotRead
    /\ authRetries = 0
    /\ authSleeps = <<>>
    /\ txHash = SourceTxHash
    /\ eventSeq \in {NoSequence, 42}
    /\ sequence = (IF eventSeq = NoSequence THEN 0 ELSE eventSeq)
    /\ path = (IF sequence = 0 THEN "tx" ELSE "seq")
    /\ pc = (IF sequence = 0 THEN "tx_first" ELSE "poll_head")
    /\ retries = 0
    /\ backoff = (IF sequence = 0 THEN <<0, 1>> ELSE <<initialBackoff, 1>>)
    /\ lookups = <<>>
    /\ sleeps = <<>>
    /\ vaaHex = "unset"
    /\ destinationTx = "unset"
    /\ calls = <<"getBalance", "balanceOf", "allowance", "transferTokens",
                 "transferWait">>
    /\ err = "none"
    /\ result = NoResult
    /\ nResults = 0
    /\ cancelRequested = FALSE
    /\ transferRecipient = SponsorAddress
    /\ feeRecipient = "unset"
    /\ submittedVaa = "unset"
    /\ HostStart
    /\ FetchIdle
    /\ PairIdle
    /\ SideIdle

PollInit ==
    /\ maxRetries \in 0..MaxRetriesBound
    /\ PollEntry

PollNext ==
    \/ PollLookup
    \/ PollSleepDone
    \/ PollExhausted
    \/ TxFirstLookup
    \/ TxLookup
    \/ TxSleepDone
    \/ TxExhausted

SpecPoll == PollInit /\ [][PollNext]_vars /\ WF_vars(PollNext)

(* Two concurrent runs in phase 2 *)

PairInit ==
    /\ amountStr = 20
    /\ explicitRecipient = FALSE
    /\ cfgBridge = TRUE
    /\ cfgCoinType = TRUE
    /\ maxRetries = MaxRetriesBound
    /\ initialBackoff = 2000
    /\ RunStart
    /\ HostStart
    /\ FetchIdle
    /\ SideIdle
    /\ runPc = [r \in Runs |-> "poll_head"]
    /\ runSequence = [r \in Runs |-> 41 + r]
    /\ runMaxRetries \in [Runs -> 0..MaxRetriesBound]
    /\ runInitialBackoff \in [Runs -> {2000, 20000}]
    /\ runRetries = [r \in Runs |-> 0]
    /\ runBackoff = [r \in Runs |-> <<runInitialBackoff[r], 1>>]
    /\ runLookups = [r \in Runs |-> <<>>]
    /\ runSleeps = [r \in Runs |-> <<>>]
    /\ runResult = [r \in Runs |-> NoResult]

PairNext == \E r \in Runs : RunStep(r)

SpecPair == PairInit /\ [][PairNext]_vars

----------------------------------------------------------------------------
(* transferUsdcViaWormhole alone, with the catch block of its caller: the   *)
(* run up to the confirmed source transfer.                                 *)

SourceNext ==
    \/ GetSigners
    \/ CheckGas
    \/ CheckBalance
    \/ CheckAllowance
    \/ Approve
    \/ ApproveWait
    \/ AllowanceRecheck
    \/ SubmitTransfer
    \/ TransferWait
    \/ Catch

SpecSource == Init /\ [][SourceNext]_vars

(* Phase 2 with the smallest attempt budgets.  No sleep happens under      *)
(* them, so the steps that end a sleep are not part of the behaviour.       *)

EdgeRetries == {-1, 0, 1}

PollEdgeInit ==
    /\ maxRetries \in EdgeRetries
    /\ PollEntry

PollEdgeNext ==
    \/ PollLookup
    \/ PollExhausted
    \/ TxFirstLookup
    \/ TxLookup
    \/ TxExhausted
    \/ Catch

SpecPollEdge == PollEdgeInit /\ [][PollEdgeNext]_vars

----------------------------------------------------------------------------
(* Two runs of transferUsdcViaWormhole with the same signer and token,     *)
(* interleaved at their awaits.  shared.allowance is the token contract's   *)
(* allowance of the signer for the token bridge: approve sets it to the     *)
(* approved amount, a transferTokens that goes through lowers it by the     *)
(* amount moved, and one that asks for more than it reverts.                *)

\* the main run is not started, no other side behaviour is examined
MainIdle ==
    /\ amountStr = 20
    /\ explicitRecipient = FALSE
    /\ cfgBridge = TRUE
    /\ cfgCoinType = TRUE
    /\ maxRetries = MaxRetriesBound
    /\ initialBackoff = 2000
    /\ pc = "idle"
    /\ RunLocalsStart
    /\ HostStart
    /\ FetchIdle
    /\ PairIdle

SharedInit ==
    /\ MainIdle
    /\ TwinIdle
    /\ CctpIdle
    /\ \E a \in 0..MaxTokens, amt \in [Runs -> 1..MaxTokens] :
          shared = [allowance |-> a,
                    pc |-> [r \in Runs |-> "allow_check"],
                    amount |-> amt,
                    read |-> [r \in Runs |-> NotRead],
                    retries |-> [r \in Runs |-> 0],
                    atSubmit |-> [r \in Runs |-> NotRead]]

(* transferUsdcViaWormhole, lines 78-80: the allowance is read *)

SharedCheckAllowance(r) ==
    /\ shared.pc[r] = "allow_check"
    /\ shared' = [shared EXCEPT
                    !.read[r] = shared.allowance,
                    !.pc[r] = IF NeedsApprove(shared.allowance, shared.amount[r])
                              THEN "approve" ELSE "transfer"]
    /\ UNCHANGED <<mainVars, pairVars, twin, cctp>>

(* transferUsdcViaWormhole, lines 84-100: approve is sent and confirmed *)

SharedApprove(r) ==
    /\ shared.pc[r] = "approve"
    /\ \/ shared' = [shared EXCEPT
                       !.allowance = ApproveAmount(shared.amount[r]),
                       !.retries[r] = 0,
                       !.pc[r] = "allow_recheck"]
       \/ shared' = [shared EXCEPT !.pc[r] = "failed"]
    /\ UNCHANGED <<mainVars, pairVars, twin, cctp>>

(* transferUsdcViaWormhole, lines 103-126: bounded allowance re-read *)

SharedRecheck(r) ==
    /\ shared.pc[r] = "allow_recheck"
    /\ shared.retries[r] < AllowanceMaxRetries
    /\ shared' = [shared EXCEPT
                    !.read[r] = shared.allowance,
                    !.retries[r] = IF shared.allowance >= shared.amount[r]
                                   THEN @ ELSE @ + 1,
                    !.pc[r] = IF shared.allowance >= shared.amount[r]
                              THEN "transfer"
                              ELSE IF shared.retries[r] + 1 < AllowanceMaxRetries
                                   THEN "allow_recheck" ELSE "failed"]
    /\ UNCHANGED <<mainVars, pairVars, twin, cctp>>

(* transferUsdcViaWormhole, lines 157-172: transferTokens is sent and mined *)

SharedTransfer(r) ==
    /\ shared.pc[r] = "transfer"
    /\ IF shared.allowance >= shared.amount[r]
       THEN shared' = [shared EXCEPT
                         !.atSubmit[r] = shared.allowance,
                         !.allowance = @ - shared.amount[r],
                         !.pc[r] = "done"]
       ELSE shared' = [shared EXCEPT
                         !.atSubmit[r] = shared.allowance,
                         !.pc[r] = "failed"]
    /\ UNCHANGED <<mainVars, pairVars, twin, cctp>>

SharedStep(r) ==
    \/ SharedCheckAllowance(r)
    \/ SharedApprove(r)
    \/ SharedRecheck(r)
    \/ SharedTransfer(r)

SharedNext == \E r \in Runs : SharedStep(r)

SpecShared == SharedInit /\ [][SharedNext]_vars

----------------------------------------------------------------------------
(* Two runs of transferUsdcWithWormholeOnly under one loaded configuration, *)
(* given the same external responses step by step; their requests differ   *)
(* at most in networkType.  twin.trace lists each run's external calls with *)
(* the contract or base URL they went to.                                   *)

NetworkTypes == {"Mainnet", "Testnet"}
ConfigNetworkTypes == NetworkTypes \cup {"Devnet"}
RequestNetworkTypes == NetworkTypes \cup {"absent"}

TestnetApi == "https://api.testnet.wormholescan.io"
MainnetApi == "https://api.wormholescan.io"

\* a variant that takes the network from the request
ApiBaseUrlFromRequest(reqNet, cfgNet) ==
    IF reqNet = "Mainnet" THEN MainnetApi ELSE TestnetApi

\* config.networkType === 'Mainnet' ? WORMHOLE_API.mainnet : WORMHOLE_API.testnet
ApiBaseUrl(reqNet, cfgNet) ==
    IF cfgNet = "Mainnet" THEN MainnetApi ELSE TestnetApi

\* WORMHOLE_CONTRACTS.testnet.baseSepolia.tokenBridge
SourceTokenBridge(reqNet, cfgNet) == "testnet.baseSepolia.tokenBridge"

TwinInit ==
    /\ MainIdle
    /\ SharedIdle
    /\ CctpIdle
    /\ \E c \in ConfigNetworkTypes, q \in [Runs -> RequestNetworkTypes] :
          twin = [cfgNet |-> c,
                  reqNet |-> q,
                  pc |-> [r \in Runs |-> "transfer"],
                  retries |-> [r \in Runs |-> 0],
                  vaa |-> [r \in Runs |-> "unset"],
                  trace |-> [r \in Runs |-> <<>>],
                  result |-> [r \in Runs |-> NoResult]]

TwinAt(p) == \A r \in Runs : twin.pc[r] = p

TwinCall(r, name, target) == Append(twin.trace[r], <<name, target>>)

(* transferUsdcWithWormholeOnly, lines 55-59: the source transfer *)

TwinTransfer ==
    /\ TwinAt("transfer")
    /\ \E ok \in BOOLEAN :
          twin' = [twin EXCEPT
                     !.trace = [r \in Runs |->
                                  TwinCall(r, "transferTokens",
                                           SourceTokenBridge(twin.reqNet[r], twin.cfgNet))],
                     !.pc = [r \in Runs |-> IF ok THEN "poll" ELSE "done"],
                     !.result = [r \in Runs |->
                                   IF ok THEN twin.result[r]
                                   ELSE FailureResult("Transaction failed")]]
    /\ UNCHANGED <<mainVars, pairVars, shared, cctp>>

(* pollVaa, lines 133-149, over fetchVaaBySequence, lines 76-81 *)

TwinLookup ==
    /\ TwinAt("poll")
    /\ \A r \in Runs : LoopContinues(twin.retries[r], MaxRetriesBound)
    /\ \E o \in Payloads \cup {"unavailable"} :
          twin' = [twin EXCEPT
                     !.trace = [r \in Runs |->
                                  TwinCall(r, "fetchVaaBySequence",
                                           ApiBaseUrl(twin.reqNet[r], twin.cfgNet))],
                     !.pc = [r \in Runs |-> IF IsPayload(o) THEN "submit" ELSE "poll"],
                     !.vaa = [r \in Runs |-> IF IsPayload(o) THEN o ELSE twin.vaa[r]],
                     !.retries = [r \in Runs |->
                                    IF IsPayload(o) THEN twin.retries[r]
                                    ELSE twin.retries[r] + 1]]
    /\ UNCHANGED <<mainVars, pairVars, shared, cctp>>

(* pollVaa, line 156, and the catch block, lines 170-173 *)

TwinExhausted ==
    /\ TwinAt("poll")
    /\ \A r \in Runs : ~LoopContinues(twin.retries[r], MaxRetriesBound)
    /\ twin' = [twin EXCEPT
                  !.pc = [r \in Runs |-> "done"],
                  !.result = [r \in Runs |->
                                FailureResult("Failed to get VAA after retries")]]
    /\ UNCHANGED <<mainVars, pairVars, shared, cctp>>

(* transferUsdcWithWormholeOnly, lines 125-145: completion and result *)

TwinSubmit ==
    /\ TwinAt("submit")
    /\ \E ok \in BOOLEAN :
          twin' = [twin EXCEPT
                     !.trace = [r \in Runs |-> TwinCall(r, "submit_vaa_entry", "aptos")],
                     !.pc = [r \in Runs |-> "done"],
                     !.result = [r \in Runs |->
                                   IF ok
                                   THEN SuccessResult(SourceTxHash, twin.vaa[r], DestTxHash)
                                   ELSE FailureResult("Aptos transaction failed")]]
    /\ UNCHANGED <<mainVars, pairVars, shared, cctp>>

TwinNext ==
    \/ TwinTransfer
    \/ TwinLookup
    \/ TwinExhausted
    \/ TwinSubmit

SpecTwin == TwinInit /\ [][TwinNext]_vars

----------------------------------------------------------------------------
(* transferUsdcViaCctp: one action per awaited call.  The SDK calls either  *)
(* raise or resolve; initiateTransfer and completeTransfer resolve with one *)
(* transaction id or with a list that holds at least one.                   *)

\* what initiateTransfer and completeTransfer resolve with
TxIdReturns(a, b) ==
    {[isArray |-> TRUE, ids |-> <<a>>, value |-> "unset"],
     [isArray |-> TRUE, ids |-> <<a, b>>, value |-> "unset"],
     [isArray |-> FALSE, ids |-> <<>>, value |-> a]}

\* what fetchAttestation does: raises (error or timeout) or resolves
AttestationReturns ==
    {[kind |-> "throws", ids |-> <<>>],
     [kind |-> "undefined", ids |-> <<>>],
     [kind |-> "list", ids |-> <<>>],
     [kind |-> "list", ids |-> <<"att1">>],
     [kind |-> "list", ids |-> <<"att1", "att2">>]}

\* Array.isArray(txids) ? txids[0] : txids
FirstTxId(ret) == IF ret.isArray THEN ret.ids[1] ELSE ret.value

\* attestationIds[0]
FirstAttestationId(a) == IF a.ids = <<>> THEN "unset" ELSE a.ids[1]

\* a variant of the test that takes any list for an attestation
AttestationReceivedAnyList(a) == a.kind = "list"

\* attestationIds && attestationIds.length > 0
AttestationReceived(a) == a.kind = "list" /\ Len(a.ids) > 0

\* a variant of the success literal that leaves the attestation out
CctpSuccessResultNoAttestation(src, att, dst) ==
    [success |-> TRUE, sourceTx |-> src, attestationId |-> "unset",
     destinationTx |-> dst, error |-> "unset"]

\* the object literal returned at lines 149-154
CctpSuccessResult(src, att, dst) ==
    [success |-> TRUE, sourceTx |-> src, attestationId |-> att,
     destinationTx |-> dst, error |-> "unset"]

CctpThrow(name, e) ==
    cctp' = [cctp EXCEPT !.calls = Append(@, name), !.err = e, !.pc = "catch"]

CctpFrame == UNCHANGED <<mainVars, pairVars, shared, twin>>

CctpInit ==
    /\ MainIdle
    /\ SharedIdle
    /\ TwinIdle
    /\ \E a \in AmountStrings, d \in BOOLEAN :
          cctp = [pc |-> "sdk_init", amount |-> a, destGiven |-> d,
                  quoteOk |-> FALSE, calls |-> <<>>, sourceTx |-> "unset",
                  attestation |-> NoAttestation, destinationTx |-> "unset",
                  err |-> "none", result |-> NoResult]

(* lines 31-58: the SDK and the signers are initialised *)

CctpSdkInit ==
    /\ cctp.pc = "sdk_init"
    /\ \/ cctp' = [cctp EXCEPT !.calls = Append(@, "wormhole"), !.pc = "create"]
       \/ CctpThrow("wormhole", "SDK initialisation failed")
    /\ CctpFrame

(* lines 61-86: the circle transfer is created *)

CctpCreate ==
    /\ cctp.pc = "create"
    /\ \/ cctp' = [cctp EXCEPT !.calls = Append(@, "circleTransfer"), !.pc = "quote"]
       \/ CctpThrow("circleTransfer", "Invalid transfer")
    /\ CctpFrame

(* lines 89-99: the quote, whose failure is logged and ignored *)

CctpQuote ==
    /\ cctp.pc = "quote"
    /\ \E ok \in BOOLEAN :
          cctp' = [cctp EXCEPT !.calls = Append(@, "quoteTransfer"),
                               !.quoteOk = ok, !.pc = "nonce"]
    /\ CctpFrame

(* lines 105-109: the nonce is refreshed, the signer is wrapped *)

CctpNonce ==
    /\ cctp.pc = "nonce"
    /\ \/ cctp' = [cctp EXCEPT !.calls = Append(@, "getTransactionCount"),
                               !.pc = "initiate"]
       \/ CctpThrow("getTransactionCount", "RPC error")
    /\ CctpFrame

(* lines 110-112: the transfer is initiated on the source chain *)

CctpInitiate ==
    /\ cctp.pc = "initiate"
    /\ \/ \E ret \in TxIdReturns("0xC1", "0xC2") :
             cctp' = [cctp EXCEPT !.calls = Append(@, "initiateTransfer"),
                                  !.sourceTx = FirstTxId(ret),
                                  !.pc = "attest"]
       \/ CctpThrow("initiateTransfer", "insufficient funds")
    /\ CctpFrame

(* lines 118-133: the attestation is awaited for up to 180 seconds *)

CctpFetchAttestation ==
    /\ cctp.pc = "attest"
    /\ \E a \in AttestationReturns :
          IF a.kind # "throws" /\ AttestationReceived(a)
          THEN cctp' = [cctp EXCEPT !.calls = Append(@, "fetchAttestation"),
                                    !.attestation = a,
                                    !.pc = "complete"]
          ELSE cctp' = [cctp EXCEPT !.calls = Append(@, "fetchAttestation"),
                                    !.attestation = a,
                                    !.err = "Attestation not received after 180 seconds",
                                    !.pc = "catch"]
    /\ CctpFrame

(* lines 137-154: the transfer is completed, the result is returned *)

CctpComplete ==
    /\ cctp.pc = "complete"
    /\ \/ \E ret \in TxIdReturns("0xD1", "0xD2") :
             cctp' = [cctp EXCEPT
                        !.calls = Append(@, "completeTransfer"),
                        !.destinationTx = FirstTxId(ret),
                        !.result = CctpSuccessResult(cctp.sourceTx,
                                                     FirstAttestationId(cctp.attestation),
                                                     FirstTxId(ret)),
                        !.pc = "done"]
       \/ CctpThrow("completeTransfer", "Aptos transaction failed")
    /\ CctpFrame

(* lines 155-161: the catch block *)

CctpCatch ==
    /\ cctp.pc = "catch"
    /\ cctp' = [cctp EXCEPT !.result = FailureResult(cctp.err), !.pc = "done"]
    /\ CctpFrame

CctpNext ==
    \/ CctpSdkInit
    \/ CctpCreate
    \/ CctpQuote
    \/ CctpNonce
    \/ CctpInitiate
    \/ CctpFetchAttestation
    \/ CctpComplete
    \/ CctpCatch

SpecCctp == CctpInit /\ [][CctpNext]_vars

(* Either entry point is called once. *)

EntryInit == FlowInit \/ CctpInit

EntryNext == Next \/ CctpNext

SpecEntry == EntryInit /\ [][EntryNext]_vars

----------------------------------------------------------------------------
(* Properties *)

AllUnavailable(n) == \A i \in 1..n : lookups[i] = "unavailable"

UnavailableThenPayload(n) ==
    /\ n \in 1..Len(lookups)
    /\ IsPayload(lookups[n])
    /\ AllUnavailable(n - 1)

RECURSIVE Pow(_, _)
Pow(b, e) == IF e = 0 THEN 1 ELSE b * Pow(b, e - 1)

\* min(initialBackoff * 1.5^(k-1), 30000)
ExpectedDelay(k) ==
    RatMin(<<initialBackoff * Pow(3, k - 1), Pow(2, k - 1)>>, <<BackoffCeiling, 1>>)

Phase1Succeeded == txHash # "unset"

\* C1: in every run the source-chain transferTokens transaction is submitted
\* at most once, whatever the attestation lookups and the destination do.
C1_TransferSubmittedAtMostOnce == CountIn(calls, "transferTokens") <= 1

C1_Witness ==
    /\ pc = "done"
    /\ result.success = FALSE
    /\ Phase1Succeeded
    /\ CountIn(calls, "transferTokens") = 1
    /\ err \in {"Failed to get VAA after retries", "Aptos transaction failed"}

\* C2: a run that fails after phase 1 succeeded returns success=false with
\* sourceTx populated with the source transaction reference.
C2_FailureCarriesSourceTx ==
    (pc = "done" /\ Phase1Succeeded /\ result.success = FALSE)
        => result.sourceTx = txHash

\* C3: pollVaa, when the lookup is unavailable N-1 times and returns a payload
\* on call N <= maxRetries, returns that payload after exactly N lookups and
\* N-1 sleeps, and does nothing more.
C3_PollReturnsOnNthLookup ==
    \A n \in 1..Len(lookups) :
        (path = "seq" /\ n <= maxRetries /\ UnavailableThenPayload(n))
            => /\ Len(lookups) = n
               /\ CountIn(calls, "fetchVaaBySequence") = n
               /\ Len(sleeps) = n - 1
               /\ vaaHex = lookups[n]
               /\ pc \notin PollPcs

C3_Witness ==
    /\ path = "seq"
    /\ maxRetries >= 3
    /\ Len(lookups) = maxRetries
    /\ UnavailableThenPayload(maxRetries)
    /\ Len(sleeps) = maxRetries - 1

\* C4: the k-th sleep between attestation attempts lasts
\* min(initialBackoff * 1.5^(k-1), 30000) ms for every initialBackoff > 0,
\* so no sleep exceeds the 30000 ms ceiling.
C4_SleepFollowsCappedBackoff ==
    \A k \in 1..Len(sleeps) : RatEq(sleeps[k], ExpectedDelay(k))

\* C5: pollVaa never makes more than maxRetries lookups, and when every
\* lookup is unavailable it fails with the timeout error after exactly
\* maxRetries lookups.
C5_PollTimeoutAfterMaxRetries ==
    path = "seq" =>
        /\ Len(lookups) <= maxRetries
        /\ (pc \notin PollPcs /\ AllUnavailable(Len(lookups)))
              => /\ err = "Failed to get VAA after retries"
                 /\ Len(lookups) = maxRetries
                 /\ CountIn(calls, "fetchVaaBySequence") = maxRetries
                 /\ (pc = "done" => result = FailureResult("Failed to get VAA after retries"))

C5_Witness ==
    /\ path = "seq"
    /\ pc = "done"
    /\ maxRetries >= 2
    /\ Len(lookups) = maxRetries
    /\ AllUnavailable(maxRetries)

\* C6: a cancellation raised while the run sleeps between attestation
\* attempts interrupts the sleep: the next step of the run is the Cancelled
\* failure, not the end of the sleep and not another lookup.
C6_CancelInterruptsSleep ==
    [][(pc \in SleepPcs /\ cancelRequested) => (pc' = "catch" /\ err' = "Cancelled")]_vars

\* C7: every failure, in any phase, resolves the call with exactly one
\* TransferResult with success=false and a non-empty reason; the call never
\* rejects.
C7_FailureAlwaysResolves ==
    (pc \in Terminal /\ err # "none")
        => /\ pc = "done"
           /\ nResults = 1
           /\ result.success = FALSE
           /\ result.error \notin {"unset", ""}

\* C8: when the token balance read is below the requested amount the run
\* fails with the insufficient-token-balance reason, and makes no approve, no
\* transferTokens, no attestation lookup and no destination call.
C8_LowBalanceFailsBeforeTransfer ==
    (balance # NotRead /\ balance < Amount)
        => /\ calls = <<"getBalance", "balanceOf">>
           /\ lookups = <<>>
           /\ pc \in {"catch", "done"}
           /\ err = "Insufficient USDC balance"
           /\ (pc = "done" => result = FailureResult("Insufficient USDC balance"))

C8_Witness ==
    /\ pc = "done"
    /\ balance # NotRead
    /\ balance < Amount
    /\ result.error = "Insufficient USDC balance"

\* C9: when the destination bridge address or coin type is not configured,
\* the run fails with the configuration error before any chain call or
\* attestation lookup is made.
C9_ConfigErrorBeforeChainCalls ==
    err = "Missing Aptos configuration" => (calls = <<>> /\ lookups = <<>>)

\* C10: the approve transaction is submitted if and only if the allowance
\* read before the transfer is below the requested amount; a sufficient
\* allowance means zero approvals, and an approval is for at least the
\* requested amount.
C10_ApproveIffAllowanceLow ==
    LET nApprove == CountIn(calls, "approve") IN
    /\ nApprove <= 1
    /\ initAllowance = NotRead => nApprove = 0
    /\ (initAllowance # NotRead /\ initAllowance >= Amount)
          => (nApprove = 0 /\ approvedAmount = NotRead)
    /\ (initAllowance # NotRead /\ initAllowance < Amount /\ pc # "approve")
          => (nApprove = 1 /\ approvedAmount >= Amount)
    /\ initAllowance = NotRead => CountIn(calls, "transferTokens") = 0

C10_Witness ==
    /\ initAllowance = Amount
    /\ Amount > 0
    /\ CountIn(calls, "approve") = 0
    /\ CountIn(calls, "transferTokens") = 1


LastLookup == lookups[Len(lookups)]

FetchCalls == {"fetchVaaBySequence", "fetchVaaByTxHash"}
SourceTxCalls == {"approve", "transferTokens"}
DestCalls == {"submit_vaa_entry", "waitForTransaction"}
Phase3Errors == {"Missing Aptos configuration", "Aptos submit error",
                 "Aptos transaction build error", "Aptos transaction failed"}

\* id is the first 40 characters of vaa
IsFirst40Of(id, vaa) ==
    \/ vaa = "0x01aa|tail" /\ id = "0x01aa"
    \/ vaa = "0x01bb" /\ id = "0x01bb"

\* C11: when the confirmed source transaction carries no sequence, the run
\* does not fail for that reason but looks the attestation up by transaction
\* hash, and a payload returned within the budget is the VAA the run takes
\* to the destination phase.
C11_NoSequenceFallsBackToTxLookup ==
    (txHash # "unset" /\ eventSeq = NoSequence)
        => /\ path = "tx"
           /\ CountIn(calls, "fetchVaaBySequence") = 0
           /\ lookups = <<>> => pc = "tx_first"
           /\ (lookups # <<>> /\ IsPayload(LastLookup))
                 => /\ vaaHex = LastLookup
                    /\ pc \in {"cfg_check", "dest_submit", "dest_wait", "catch",
                               "done", "rejected"}
                    /\ err \in Phase3Errors \cup {"none"}

C11_Witness ==
    /\ eventSeq = NoSequence
    /\ Len(lookups) >= 3
    /\ IsPayload(LastLookup)
    /\ pc = "dest_wait"

\* C12: whenever the receipt's events carry a sequence number, sequence 0
\* included, phase 2 polls by sequence and never looks up by transaction hash.
C12_SequencePollsBySequence ==
    (txHash # "unset" /\ eventSeq # NoSequence)
        => (path = "seq" /\ CountIn(calls, "fetchVaaByTxHash") = 0)

\* C13: when all three phases succeed the single result has success=true,
\* the source hash of phase 1, the first 40 characters of the fetched payload
\* as attestationId, the destination hash, and no error.
C13_SuccessResultFields ==
    (pc = "done" /\ result.success)
        => /\ nResults = 1
           /\ result.sourceTx = SourceTxHash
           /\ lookups # <<>>
           /\ IsPayload(LastLookup)
           /\ IsFirst40Of(result.attestationId, LastLookup)
           /\ result.destinationTx = DestTxHash
           /\ result.error = "unset"
           /\ err = "none"

C13_Witness ==
    /\ pc = "done"
    /\ result.success
    /\ vaaHex = "0x01aa|tail"
    /\ result.attestationId = "0x01aa"

\* C14: the phases run in order and never branch back: lookups follow a
\* confirmed source transfer, the completion follows a received payload, and
\* no source transaction follows a lookup nor a lookup a destination call.
C14_PhasesInOrder ==
    /\ lookups # <<>> => (txHash # "unset" /\ CountIn(calls, "transferWait") = 1)
    /\ err = "Transfer transaction failed" => lookups = <<>>
    /\ Len(lookups) = Cardinality({i \in DOMAIN calls : calls[i] \in FetchCalls})
    /\ CountIn(calls, "submit_vaa_entry") > 0
          => (lookups # <<>> /\ IsPayload(LastLookup) /\ vaaHex = LastLookup)
    /\ \A j \in DOMAIN calls :
          /\ calls[j] \in SourceTxCalls
                => \A i \in 1..(j - 1) : calls[i] \notin FetchCalls \cup DestCalls
          /\ calls[j] \in FetchCalls
                => \A i \in 1..(j - 1) : calls[i] \notin DestCalls

C14_Witness ==
    /\ pc = "done"
    /\ result.success
    /\ Len(lookups) >= 2
    /\ CountIn(calls, "approve") = 1

\* C15: success is returned only after the completion transaction was
\* submitted and the wait for its finality returned; a failed wait gives
\* success=false.
C15_SuccessOnlyAfterFinality ==
    /\ (nResults > 0 /\ result.success)
          => /\ Len(calls) >= 2
             /\ calls[Len(calls) - 1] = "submit_vaa_entry"
             /\ calls[Len(calls)] = "waitForTransaction"
             /\ err = "none"
    /\ (pc = "done" /\ err = "Aptos transaction failed")
          => result = FailureResult("Aptos transaction failed")

C15_Witness ==
    /\ pc = "done"
    /\ err = "Aptos transaction failed"
    /\ calls[Len(calls)] = "waitForTransaction"
    /\ result.success = FALSE

\* C16: in pollVaa a transport error uses up exactly one attempt: polling
\* goes on, the next lookup follows a backoff sleep, and the lookups, errors
\* included, never exceed maxRetries.
C16_TransportErrorConsumesOneSlot ==
    path = "seq" =>
        /\ retries = CountIn(lookups, "error") + CountIn(lookups, "unavailable")
        /\ Len(lookups) <= maxRetries
        /\ Len(lookups) <= Len(sleeps) + 1
        /\ err # "Wormhole API error"
        /\ \A n \in 1..Len(lookups) :
              (lookups[n] = "error" /\ n < maxRetries) => Len(sleeps) >= n
        /\ (lookups # <<>> /\ LastLookup = "error" /\ Len(lookups) < maxRetries)
              => pc \in PollPcs

C16_Witness ==
    /\ path = "seq"
    /\ Len(lookups) = 3
    /\ lookups[1] = "error"
    /\ lookups[2] = "error"
    /\ IsPayload(lookups[3])
    /\ Len(sleeps) = 2

\* C17: a polling failure in which every lookup raised a transport error is
\* reported with a reason different from the one reported when every lookup
\* was unavailable (the timeout reason).
C17_TransportFailureReasonDistinct ==
    (path = "seq" /\ pc = "done" /\ lookups # <<>>
        /\ \A i \in 1..Len(lookups) : lookups[i] = "error")
        => result.error # "Failed to get VAA after retries"

\* C18: the fetchers return the payload of a success response that has one,
\* 'unavailable' for a 404 or a success response without payload, and raise
\* an error for every other non-success status, whatever its status text.
C18_FetcherClassifiesResponses ==
    fetchOut # "idle" =>
        /\ (ResponseOk(httpResp) /\ httpResp.body \in Payloads)
              => fetchOut = httpResp.body
        /\ (httpResp.status = 404 \/ (ResponseOk(httpResp) /\ httpResp.body = "none"))
              => fetchOut = "unavailable"
        /\ (~ResponseOk(httpResp) /\ httpResp.status # 404) => fetchOut = "error"

\* C19: across a run that failed after the source transfer was confirmed and
\* its re-run, the source-chain transfer is submitted only once.
C19_RerunDoesNotResubmit ==
    priorTransfers + CountIn(calls, "transferTokens") <= 1

\* C20: the CLI exits with code 0 exactly when the transfer resolved with
\* success=true; a failed result or a rejected call gives a non-zero code.
C20_ExitCodeZeroIffSuccess ==
    exitCode # NoExit =>
        /\ exitCode = 0 <=> (pc = "done" /\ result.success)
        /\ pc = "rejected" => exitCode # 0

C20_Witness ==
    /\ exitCode = 0
    /\ pc = "done"
    /\ result.success

GasReason == "Insufficient ETH for gas fees"
TokenReason == "Insufficient USDC balance"
AuthErrors == {"Approval transaction failed",
               "Approval failed: allowance less than required"}
OnceCalls == {"getBalance", "balanceOf", "approve", "approveWait",
              "transferTokens", "transferWait", "submit_vaa_entry",
              "waitForTransaction"}
EndedPcs == {"catch", "done", "rejected"}

\* C21: the effective recipient is the request's recipient when one is given
\* and the Aptos signer's address otherwise, and that one address is passed
\* both to the source transfer and as fee recipient to the completion call.
C21_EffectiveRecipientUsedTwice ==
    LET expected == IF explicitRecipient THEN UserAddress ELSE SponsorAddress IN
    /\ recipient # "unset" => recipient = expected
    /\ CountIn(calls, "transferTokens") > 0 => transferRecipient = expected
    /\ feeRecipient # "unset"
          => (feeRecipient = expected /\ feeRecipient = transferRecipient)
    /\ CountIn(calls, "submit_vaa_entry") > 0 => feeRecipient # "unset"

C21_Witness ==
    /\ explicitRecipient
    /\ pc = "done"
    /\ result.success
    /\ transferRecipient = UserAddress
    /\ feeRecipient = UserAddress

\* C22: the native gas balance and the token balance are read once each,
\* in that order, before any approve or transferTokens; a gas shortfall ends
\* the run with the gas reason without the token balance being read, a token
\* shortfall ends it with the token reason, and the two reasons differ.
C22_PreflightChecksOnceBeforeSourceTx ==
    /\ CountIn(calls, "getBalance") <= 1
    /\ CountIn(calls, "balanceOf") <= 1
    /\ \A j \in DOMAIN calls :
          calls[j] \in SourceTxCalls
              => /\ j > 2
                 /\ calls[1] = "getBalance"
                 /\ calls[2] = "balanceOf"
                 /\ ethBalance >= MinEthRequired
                 /\ balance >= Amount
    /\ (ethBalance # NotRead /\ ethBalance < MinEthRequired)
          => /\ calls = <<"getBalance">>
             /\ balance = NotRead
             /\ err = GasReason
             /\ pc = "done" => result = FailureResult(GasReason)
    /\ (balance # NotRead /\ balance < Amount)
          => /\ err = TokenReason
             /\ pc = "done" => result = FailureResult(TokenReason)
    /\ GasReason # TokenReason

C22_Witness ==
    /\ pc = "done"
    /\ ethBalance # NotRead
    /\ ethBalance < MinEthRequired
    /\ result.success = FALSE
    /\ result.error = GasReason

\* C23: when the approval receipt is not successful, or the allowance is
\* still below the amount after the last of the bounded re-reads, the run
\* fails with that approval reason and transferTokens is never submitted; a
\* transfer that follows an approval follows a verified allowance.
C23_UnverifiedAllowanceStopsRun ==
    /\ authRetries <= AllowanceMaxRetries
    /\ err \in AuthErrors
          => /\ CountIn(calls, "transferTokens") = 0
             /\ txHash = "unset"
             /\ pc \in {"catch", "done"}
             /\ pc = "done" => result = FailureResult(err)
    /\ authRetries = AllowanceMaxRetries
          => /\ err = "Approval failed: allowance less than required"
             /\ allowance < Amount
             /\ CountIn(calls, "allowance") = AllowanceMaxRetries + 1
    /\ (approvedAmount # NotRead /\ CountIn(calls, "transferTokens") > 0)
          => /\ allowance >= Amount
             /\ CountIn(calls, "approveWait") = 1

C23_Witness ==
    /\ pc = "done"
    /\ authRetries = AllowanceMaxRetries
    /\ result.error = "Approval failed: allowance less than required"
    /\ CountIn(calls, "transferTokens") = 0

\* C24: a run submits at most one approve, at most one transferTokens and
\* at most one completion transaction.
C24_OneTransactionPerPhase ==
    /\ CountIn(calls, "approve") <= 1
    /\ CountIn(calls, "transferTokens") <= 1
    /\ CountIn(calls, "submit_vaa_entry") <= 1

C24_Witness ==
    /\ pc = "done"
    /\ err = "Aptos transaction failed"
    /\ CountIn(calls, "approve") = 1
    /\ CountIn(calls, "transferTokens") = 1
    /\ CountIn(calls, "submit_vaa_entry") = 1

\* C25: once a phase has failed, or the result has been produced, the run
\* makes no further chain call and no further lookup and only ends; no call
\* other than an attestation lookup or an allowance read is ever repeated.
C25_NoCallAfterFailure ==
    [][/\ pc \in EndedPcs
             => (calls' = calls /\ lookups' = lookups /\ pc' \in Terminal)
       /\ calls' # calls
             => /\ Len(calls') = Len(calls) + 1
                /\ calls'[Len(calls')] \in OnceCalls
                      => \A i \in DOMAIN calls : calls[i] # calls'[Len(calls')]]_vars

C25_Witness ==
    /\ pc = "done"
    /\ err = "Failed to get VAA after retries"
    /\ Len(lookups) >= 2
    /\ CountIn(calls, "allowance") >= 2

\* C27: the payload passed to the completion call is the payload the last
\* lookup returned, unchanged; nothing is submitted that no lookup returned.
C27_PayloadPassedUnchanged ==
    /\ vaaHex # "unset"
          => (lookups # <<>> /\ IsPayload(LastLookup) /\ vaaHex = LastLookup)
    /\ submittedVaa # "unset"
          => (lookups # <<>> /\ submittedVaa = LastLookup /\ submittedVaa = vaaHex)
    /\ CountIn(calls, "submit_vaa_entry") > 0 => submittedVaa \in Payloads

C27_Witness ==
    /\ pc = "dest_wait"
    /\ submittedVaa = "0x01aa|tail"
    /\ Len(lookups) >= 2
    /\ lookups[1] = "unavailable"

\* pollVaa, lines 132-156, as a function of the outcomes its lookups meet:
\* the sleeps it makes, from `retries` r and `backoff` b
RECURSIVE PollVaaSleeps(_, _, _, _)
PollVaaSleeps(outs, r, b, m) ==
    IF outs = <<>> \/ ~LoopContinues(r, m) THEN <<>>
    ELSE IF IsPayload(Head(outs)) THEN <<>>
    ELSE IF ShouldSleep(r + 1, m)
         THEN <<b>> \o PollVaaSleeps(Tail(outs), r + 1, NextBackoff(b), m)
         ELSE PollVaaSleeps(Tail(outs), r + 1, b, m)

\* ... and the number of lookups it makes
RECURSIVE PollVaaLookups(_, _, _)
PollVaaLookups(outs, r, m) ==
    IF outs = <<>> \/ ~LoopContinues(r, m) THEN 0
    ELSE IF IsPayload(Head(outs)) THEN 1
    ELSE 1 + PollVaaLookups(Tail(outs), r + 1, m)

NoErrorIn(s) == \A i \in DOMAIN s : s[i] # "error"

\* the locals of run r
RunState(r) == <<runPc[r], runSequence[r], runMaxRetries[r], runInitialBackoff[r],
                 runRetries[r], runBackoff[r], runLookups[r], runSleeps[r],
                 runResult[r]>>

\* C26: of two concurrent runs, every step changes the locals of one run
\* only; each run's retry counter, sleeps, sequence and result are those its
\* own lookup outcomes give; and while one run sleeps the other, if not
\* finished, can take its next step.
C26_ConcurrentRunsIndependent ==
    /\ [][\E r \in Runs : \A q \in Runs \ {r} : RunState(q)' = RunState(q)]_vars
    /\ [](\A r \in Runs :
            /\ runRetries[r] = Len(runLookups[r])
                                  - (IF runPc[r] \in {"dest", "done"}
                                        /\ runResult[r].error
                                              # "Failed to get VAA after retries"
                                     THEN 1 ELSE 0)
            /\ runSleeps[r] = PollVaaSleeps(runLookups[r], 0,
                                            <<runInitialBackoff[r], 1>>,
                                            runMaxRetries[r])
            /\ runSequence[r] = 41 + r
            /\ runResult[r].success
                  => /\ runResult[r].sourceTx = RunTxHash(r)
                     /\ IsFirst40Of(runResult[r].attestationId,
                                    runLookups[r][Len(runLookups[r])])
            /\ \A q \in Runs \ {r} :
                  (runPc[r] = "poll_sleep" /\ runPc[q] # "done")
                      => ENABLED RunStep(q))

C26_Witness ==
    /\ runPc[1] = "poll_sleep"
    /\ Len(runSleeps[1]) = 1
    /\ runPc[2] = "done"
    /\ runResult[2].success
    /\ Len(runSleeps[2]) = 2
    /\ runBackoff[1] # runBackoff[2]

\* C28: pollVaa makes at most maxRetries lookups and at most maxRetries-1
\* sleeps (none when maxRetries is 0), never starts a sleep after its last
\* attempt, and, every lookup and sleep returning, always ends: with a
\* payload or with the failure.
C28_PollVaaTerminates ==
    /\ [](path = "seq" =>
            /\ Len(lookups) <= maxRetries
            /\ Len(sleeps) <= (IF maxRetries = 0 THEN 0 ELSE maxRetries - 1)
            /\ pc = "poll_sleep" => Len(lookups) < maxRetries
            /\ (pc = "catch" /\ lookups # <<>>) => Len(sleeps) = Len(lookups) - 1)
    /\ (path = "seq" /\ pc \in PollPcs)
          ~> (pc = "cfg_check" \/ (pc = "catch" /\ err = "Failed to get VAA after retries"))

\* C28 as stated: at most maxRetries-1 sleeps for every maxRetries.
C28_SleepsAtMostMaxRetriesMinusOne ==
    path = "seq" => Len(sleeps) <= maxRetries - 1

C28_Witness ==
    /\ path = "seq"
    /\ pc = "catch"
    /\ maxRetries >= 2
    /\ Len(lookups) = maxRetries
    /\ Len(sleeps) = maxRetries - 1
    /\ lookups[1] = "error"

\* C29: by transaction hash, a first lookup that returns a payload ends
\* phase 2 with no sleep; after a first 'unavailable', for outcomes
\* 'unavailable' and payload the loop makes the lookups and the sleeps that
\* pollVaa makes for the same outcomes, maxRetries and initialBackoff.
C29_FallbackLoopMatchesPollVaa ==
    LET ib == <<initialBackoff, 1>> IN
    /\ path = "seq"
          => /\ sleeps = PollVaaSleeps(lookups, 0, ib, maxRetries)
             /\ Len(lookups) = PollVaaLookups(lookups, 0, maxRetries)
             /\ pc \notin PollPcs
                   => (Len(lookups) = maxRetries \/ IsPayload(LastLookup))
    /\ (path = "tx" /\ lookups # <<>> /\ IsPayload(lookups[1]))
          => (Len(lookups) = 1 /\ sleeps = <<>> /\ pc \notin {"tx_head", "tx_sleep"})
    /\ (path = "tx" /\ lookups # <<>> /\ lookups[1] = "unavailable"
           /\ NoErrorIn(lookups))
          => /\ sleeps = PollVaaSleeps(Tail(lookups), 0, ib, maxRetries)
             /\ Len(Tail(lookups)) = PollVaaLookups(Tail(lookups), 0, maxRetries)
             /\ pc \notin {"tx_head", "tx_sleep"}
                   => (Len(Tail(lookups)) = maxRetries \/ IsPayload(LastLookup))

C29_Witness ==
    /\ path = "tx"
    /\ maxRetries = 3
    /\ Len(lookups) = 4
    /\ NoErrorIn(lookups)
    /\ IsPayload(lookups[4])
    /\ Len(sleeps) = 2

\* C30: by transaction hash, a lookup that raises a transport error uses up
\* one attempt and the polling goes on; the run does not end on it.
C30_TxLookupErrorConsumesOneSlot ==
    path = "tx" =>
        /\ err # "Wormhole API error"
        /\ (lookups # <<>> /\ LastLookup = "error" /\ Len(lookups) <= maxRetries)
              => pc \in {"tx_head", "tx_sleep"}

\* C31: after a confirmed approve the allowance is re-read at most 5 times;
\* a fixed 2000 ms wait precedes the first re-read and a fixed 1000 ms wait
\* separates consecutive re-reads; the re-reading stops at the first read
\* that covers the amount; the budget is 5 whatever the poller's maxRetries
\* and initialBackoff are.
AllowanceRereads ==
    IF initAllowance = NotRead THEN 0 ELSE CountIn(calls, "allowance") - 1

C31_AllowanceRereadBudget ==
    /\ AllowanceRereads <= AllowanceMaxRetries
    /\ \A i \in DOMAIN authSleeps :
          authSleeps[i] = (IF i = 1 THEN PropagationDelay ELSE AllowanceRetryDelay)
    /\ AllowanceRereads <= Len(authSleeps)
    /\ Len(authSleeps) <= AllowanceRereads + 1
    /\ pc = "allow_recheck"
          => (allowance < Amount /\ Len(authSleeps) = AllowanceRereads + 1)
    /\ err = "Approval failed: allowance less than required"
          => AllowanceRereads = AllowanceMaxRetries

C31_Witness ==
    /\ maxRetries = 0
    /\ initialBackoff = 40000
    /\ pc = "transfer"
    /\ AllowanceRereads = AllowanceMaxRetries
    /\ authSleeps = <<PropagationDelay, AllowanceRetryDelay, AllowanceRetryDelay,
                      AllowanceRetryDelay, AllowanceRetryDelay>>

\* C32: in the by-hash fallback at most maxRetries + 1 lookups are made,
\* exactly one when the first lookup returns a payload; when every lookup
\* is unavailable the run fails, after maxRetries + 1 lookups, with a reason
\* that contains the hash of the source transaction.
MentionsTransaction(msg, h) ==
    \E prefix \in {"Failed to get VAA after retries. Transaction: "} :
        msg = prefix \o h

C32_FallbackLookupBudget ==
    path = "tx" =>
        /\ Len(lookups) <= maxRetries + 1
        /\ CountIn(calls, "fetchVaaByTxHash") = Len(lookups)
        /\ (lookups # <<>> /\ IsPayload(lookups[1])) => Len(lookups) = 1
        /\ (pc = "done" /\ lookups # <<>> /\ AllUnavailable(Len(lookups)))
              => /\ ~result.success
                 /\ Len(lookups) = maxRetries + 1
                 /\ MentionsTransaction(result.error, txHash)

C32_Witness ==
    /\ path = "tx"
    /\ pc = "done"
    /\ maxRetries = 2
    /\ Len(lookups) = 3
    /\ AllUnavailable(3)
    /\ result.error = "Failed to get VAA after retries. Transaction: 0xSRC"

\* C33: whenever transferTokens is about to be or has been submitted, the
\* allowance the run read last covers the requested amount.
C33_TransferOnlyWithVerifiedAllowance ==
    (pc = "transfer" \/ CountIn(calls, "transferTokens") > 0)
        => (allowance # NotRead /\ allowance >= Amount)

C33_Witness ==
    /\ CountIn(calls, "transferTokens") = 1
    /\ initAllowance < Amount
    /\ authRetries >= 1
    /\ allowance >= Amount

\* C34: when two runs use the same signer and token, the on-chain allowance
\* at the moment a run submits transferTokens covers that run's amount,
\* under every interleaving.
C34_SharedAllowanceCoversTransfer ==
    \A r \in Runs :
        shared.atSubmit[r] # NotRead => shared.atSubmit[r] >= shared.amount[r]

\* C35: every result either entry point returns is a success with sourceTx,
\* attestationId and destinationTx set and no error, or a failure with an
\* error and no destinationTx; no success is returned once an error reached
\* the catch block.
ResultShapeOk(res) ==
    \/ /\ res.success
       /\ res.sourceTx # "unset"
       /\ res.attestationId # "unset"
       /\ res.destinationTx # "unset"
       /\ res.error = "unset"
    \/ /\ ~res.success
       /\ res.error # "unset"
       /\ res.destinationTx = "unset"

C36_RequestNetworkTypeIgnored ==
    /\ \A r, q \in Runs :
          /\ twin.pc[r] = twin.pc[q]
          /\ twin.trace[r] = twin.trace[q]
          /\ twin.result[r] = twin.result[q]
    /\ \A r \in Runs : \A i \in DOMAIN twin.trace[r] :
          twin.trace[r][i][1] = "fetchVaaBySequence"
              => (twin.trace[r][i][2] = MainnetApi <=> twin.cfgNet = "Mainnet")

C36_Witness ==
    /\ twin.cfgNet = "Testnet"
    /\ twin.reqNet[1] = "Mainnet"
    /\ twin.reqNet[2] = "Testnet"
    /\ \A r \in Runs :
          /\ twin.pc[r] = "done"
          /\ twin.result[r].success
          /\ twin.trace[r][2] = <<"fetchVaaBySequence", TestnetApi>>

\* C37: a CCTP run calls initiateTransfer at most once; it calls
\* completeTransfer only after fetchAttestation resolved with a non-empty
\* list, and never when fetchAttestation raised, timed out or resolved with
\* nothing; every failure ends in a result with success = false.
C37_CctpOrdering ==
    /\ CountIn(cctp.calls, "initiateTransfer") <= 1
    /\ CountIn(cctp.calls, "completeTransfer") > 0
          => /\ cctp.attestation.kind = "list"
             /\ cctp.attestation.ids # <<>>
             /\ \E i, j \in DOMAIN cctp.calls :
                   /\ i < j
                   /\ cctp.calls[i] = "fetchAttestation"
                   /\ cctp.calls[j] = "completeTransfer"
    /\ (cctp.attestation.kind \in {"throws", "undefined"}
          \/ (cctp.attestation.kind = "list" /\ cctp.attestation.ids = <<>>))
          => /\ CountIn(cctp.calls, "completeTransfer") = 0
             /\ cctp.pc \in {"catch", "done"}
             /\ cctp.err = "Attestation not received after 180 seconds"
    /\ cctp.err # "none"
          => /\ cctp.pc \in {"catch", "done"}
             /\ cctp.pc = "done" => cctp.result = FailureResult(cctp.err)

C37_Witness ==
    /\ cctp.pc = "done"
    /\ cctp.attestation = [kind |-> "list", ids |-> <<>>]
    /\ CountIn(cctp.calls, "initiateTransfer") = 1
    /\ ~cctp.result.success

\* C38: pollVaa called with maxRetries <= 0 makes no lookup and no sleep and
\* fails at once with the 'Failed to get VAA' error; with maxRetries = 1 it
\* makes exactly one lookup and never sleeps.
C38_PollVaaSmallBudgets ==
    path = "seq" =>
        /\ maxRetries <= 0
              => /\ lookups = <<>>
                 /\ sleeps = <<>>
                 /\ CountIn(calls, "fetchVaaBySequence") = 0
                 /\ pc \in {"poll_head", "catch", "done"}
                 /\ pc # "poll_head" => err = "Failed to get VAA after retries"
                 /\ pc = "done"
                       => result = FailureResult("Failed to get VAA after retries")
        /\ maxRetries = 1
              => /\ sleeps = <<>>
                 /\ pc # "poll_sleep"
                 /\ Len(lookups) <= 1
                 /\ CountIn(calls, "fetchVaaBySequence") = Len(lookups)
                 /\ (pc # "poll_head" \/ retries = 1) => Len(lookups) = 1

C38_Witness ==
    /\ path = "seq"
    /\ maxRetries = -1
    /\ pc = "done"
    /\ lookups = <<>>
    /\ result.error = "Failed to get VAA after retries"

============================================================================
